---- MODULE Spec2Model ----
(***************************************************************************)
(* State-machine model of the coordination plane of tiflow:               *)
(*   - the DM syncer checkpoint engine (dm/syncer/checkpoint.go),          *)
(*   - the owner/agent table-scheduling agent (cdc/scheduler/agent.go),    *)
(*   - the watch loop of the etcd client (pkg/etcd/client.go),             *)
(*   - the storage actor of the sorter (cdc/sorter/leveldb),               *)
(*   - the retried point operations of the etcd client,                    *)
(*   - the async pipeline node (cdc/processor/pipeline/actor_node.go).     *)
(* Each component has its own specification (SpecCheckpoint, SpecAgent,    *)
(* SpecWatch, SpecDBActor, SpecRPC, SpecNode);                             *)
(* the variables of the other components stay at their initial values.     *)
(***************************************************************************)
EXTENDS Integers, Sequences, FiniteSets, TLC

(***************************************************************************)
(* Bounds of the model (not program constants).                            *)
(***************************************************************************)
MaxPos == 2
MaxSnapshots == 2
MaxSeq == 3
MaxCalls == 4
MaxGlobalCalls == 6
MaxLockCalls == 5
MaxRev == 2
MaxTable == 2
MaxMsgs == 2
MaxStoreRev == 2
MaxSuffix == 1
MaxResponses == 3
MaxTasks == 3
MaxBatch == 2
MaxEvents == 2
MaxParentMsgs == 3
MaxRuns == 4
\* maxTries of the etcd client
maxTries == 8
\* cfg.Concurrency, and ldb.wbSize counted in events
Concurrency == 1
wbSize == 2

VARIABLES
    \* ---- checkpoint engine (RemoteCheckPoint) ----
    points,                      \* cp.points: table key -> binlogPoint
    globalPoint,                 \* cp.globalPoint
    globalPointSaveTime,         \* TRUE iff cp.globalPointSaveTime is not the zero time
    snapshots,                   \* cp.snapshots, FIFO
    snapshotSeq,                 \* cp.snapshotSeq
    safeModeExitPoint,           \* cp.safeModeExitPoint: <<>> (nil) or <<location>>
    needFlushSafeModeExitPoint,  \* cp.needFlushSafeModeExitPoint
    store,                       \* rows of the checkpoint table with this id
    flushing,                    \* the FlushPointsExcept call between its two locked parts
    cpLock,                      \* cp.RWMutex: "free", or "held" by a call that never unlocks
    cpRet,                       \* outcome of the last checkpoint call
    cpCalls,                     \* number of checkpoint calls counted against MaxCalls
    \* ---- scheduler agent (BaseAgent) ----
    ownerInfo,                   \* a.ownerInfo
    ownerHasChanged,             \* a.ownerHasChanged
    needSyncNow,                 \* a.needSyncNow
    pendingOps,                  \* a.pendingOps, a queue of operations
    tableOperations,             \* a.tableOperations: table ID -> operation
    tick,                        \* where the goroutine that runs Tick is
    cb,                          \* where each message-handler goroutine is
    lastCalls,                   \* the executor and messenger calls made by the latest step
    tickRet,                     \* what the last finished Tick returned
    syncOwed,                    \* whether an accepted announce still waits for its sync
    msgs,                        \* number of owner messages delivered (bounded by MaxMsgs)
    notifiedOwner,               \* the capture ID of the last OnOwnerChanged call ("" before the first)
    notifyOwed,                  \* "replaced": the owner is replaced and the flag not stored yet;
                                 \* "flagged": the flag is stored and no Tick has started since
    notifyDue,                   \* notifyOwed when the running Tick started, "none" once it notified
    \* ---- etcd client (WatchWithChan) ----
    watchPc,                     \* "new", "select" (outer select), "send" (inner loop), "exited"
    lastRevision,                \* lastRevision
    response,                    \* the response the inner loop has to forward
    outCh,                       \* the responses sent to outCh, oldest first
    outChClosed,                 \* close(outCh) has run
    ctxDone,                     \* ctx is cancelled
    sinceLastResponse,           \* clock.Since(lastReceivedResponseTime), in seconds, capped
    etcdRevision,                \* the revision of the etcd store
    keyRevisions,                \* the revisions at which the watched key changed
    watchFrom,                   \* the next revision the open watch delivers
    progressRequested,           \* a RequestProgress is not answered yet
    \* ---- storage actor (DBActor) ----
    dbPc,                        \* "idle", "acquire" (in acquireIterators), "closed", or the panic
    wb,                          \* ldb.wb: the events of the write batch
    db,                          \* ldb.db: the committed events
    deleteCount,                 \* ldb.deleteCount
    iterQ,                       \* ldb.iterQ.List
    iterQTables,                 \* ldb.iterQ.tables
    iterSem,                     \* the permits of ldb.iterSem that are taken
    iterators,                   \* the iterators handed out and not released
    taskSeq,                     \* number of messages Poll has been given (bounded by MaxTasks)
    \* ---- etcd client (retryRPC) ----
    rpcName,                     \* rpcName of the running call, "none" when no call was made
    rpcPc,                       \* "idle", "try", "inflight", "backoff", "returned"
    rpcTry,                      \* try of retry.Do: the failed attempts counted so far
    rpcInvocations,              \* how often etcdRPC was invoked by the call
    rpcErr,                      \* what the last attempt returned
    rpcRet,                      \* what the call returned to its caller
    rpcCtxDone,                  \* the caller's ctx is cancelled
    \* ---- async pipeline node (ActorNode) ----
    messageStash,                \* n.messageStash: <<>> (nil) or <<message>>
    parentNext,                  \* the next message of the parent node (messages are 1, 2, ...)
    accepted,                    \* the messages the processor accepted, oldest first
    handled,                     \* the TryHandleDataMessage calls so far: <<message, outcome>>
    nodeRet,                     \* what the last TryRun returned: "none", "nil", "err"
    nodeRuns,                    \* number of TryRun calls (bounded by MaxRuns)
    \* ---- the RWMutex of RemoteCheckPoint, lock call by lock call ----
    rwReaders,                   \* number of read locks held
    rwWriter,                    \* the writer that holds rw.w (it waits for the readers
                                 \* or holds the lock), "none" without one
    fsPc,                        \* FlushSafeModeExitPoint: "idle", "blockedOuter", "outer",
                                 \* "blockedInner", "inner", "sql"
    fsRet,                       \* what the last FlushSafeModeExitPoint returned
    rdPc,                        \* Snapshot: "idle", "blocked", "holding"
    wrPc,                        \* per writer: "idle", "waitW", "waitReaders", "holding"
    lockCalls                    \* number of calls started (bounded by MaxLockCalls)

cpVars == <<points, globalPoint, globalPointSaveTime, snapshots, snapshotSeq,
            safeModeExitPoint, needFlushSafeModeExitPoint, store, flushing,
            cpLock, cpRet, cpCalls>>

agentVars == <<ownerInfo, ownerHasChanged, needSyncNow, pendingOps, tableOperations,
               tick, cb, lastCalls, tickRet, syncOwed, msgs,
               notifiedOwner, notifyOwed, notifyDue>>

watchVars == <<watchPc, lastRevision, response, outCh, outChClosed, ctxDone,
               sinceLastResponse, etcdRevision, keyRevisions, watchFrom,
               progressRequested>>

dbActorVars == <<dbPc, wb, db, deleteCount, iterQ, iterQTables, iterSem, iterators,
                 taskSeq>>

rpcVars == <<rpcName, rpcPc, rpcTry, rpcInvocations, rpcErr, rpcRet, rpcCtxDone>>

nodeVars == <<messageStash, parentNext, accepted, handled, nodeRet, nodeRuns>>

lockVars == <<rwReaders, rwWriter, fsPc, fsRet, rdPc, wrPc, lockCalls>>

vars == <<cpVars, agentVars, watchVars, dbActorVars, rpcVars, nodeVars, lockVars>>

\* what a step of one component leaves alone
outsideCheckpoint == <<agentVars, watchVars, dbActorVars, rpcVars, nodeVars, lockVars>>
outsideAgent == <<cpVars, watchVars, dbActorVars, rpcVars, nodeVars, lockVars>>
outsideWatch == <<cpVars, agentVars, dbActorVars, rpcVars, nodeVars, lockVars>>
outsideDBActor == <<cpVars, agentVars, watchVars, rpcVars, nodeVars, lockVars>>
outsideRPC == <<cpVars, agentVars, watchVars, dbActorVars, nodeVars, lockVars>>
outsideNode == <<cpVars, agentVars, watchVars, dbActorVars, rpcVars, lockVars>>
outsideLock == <<cpVars, agentVars, watchVars, dbActorVars, rpcVars, nodeVars>>

(***************************************************************************)
(* Locations, table infos, table keys.                                     *)
(***************************************************************************)
\* binlog.Location: pos stands for the ordered tuple (file_name, offset,
\* gtid_set); suffix is the counter cleared by ResetSuffix.  It counts the
\* events injected while an error is handled; the calls of this model carry
\* none.
Suffixes == {0}
Locations == [pos : 0..MaxPos, suffix : Suffixes]
\* *model.TableInfo: NilTI is the nil pointer.
NilTI == 0
TIs == {NilTI, 1}
Schemas == {"s1"}
Names == {"t1", "t2"}
TableKeys == Schemas \X Names
\* the global row has cp_schema = "" and cp_table = ""
GlobalKey == <<"", "">>

NewLocation == [pos |-> 0, suffix |-> 0]

\* an empty map
EmptyMap == [k \in {} |-> NilTI]

\* -1, 0, 1: lexicographic order of the location tuple
CompareLocation(a, b) ==
    IF a.pos < b.pos THEN -1 ELSE IF a.pos > b.pos THEN 1 ELSE 0

ResetSuffix(l) == [l EXCEPT !.suffix = 0]

IsFreshPosition(l) == CompareLocation(l, NewLocation) <= 0

(***************************************************************************)
(* tablePoint and binlogPoint.                                             *)
(***************************************************************************)
TablePoint(l, t) == [location |-> l, ti |-> t]

newBinlogPoint(location, flushedLocation, ti, flushedTI) ==
    [savedPoint |-> TablePoint(location, ti),
     flushedPoint |-> TablePoint(flushedLocation, flushedTI)]

\* a save that does not compare the locations
saveOlderLocation(b, location, ti) ==
    [point |-> [b EXCEPT !.savedPoint = TablePoint(location, ti)], err |-> "nil"]

\* binlogPoint.save: the new point and the error it returns
save(b, location, ti) ==
    IF CompareLocation(location, b.savedPoint.location) < 0
    THEN [point |-> b, err |-> "ErrCheckpointSaveInvalidPos"]
    ELSE [point |-> [b EXCEPT !.savedPoint = TablePoint(location, ti)], err |-> "nil"]

\* a flushBy that marks the current saved point flushed, whatever it is given
flushBySaved(b, tp) == [b EXCEPT !.flushedPoint = b.savedPoint]

flushBy(b, tp) == [b EXCEPT !.flushedPoint = tp]

\* a flush that marks nothing flushed
flushNothing(b) == b

flush(b) == flushBy(b, b.savedPoint)

\* a rollback that leaves the point as it is
rollbackNothing(b, trackedTi) == b

\* binlogPoint.rollback; trackedTi is what the schema tracker holds for the table
rollback(b, trackedTi) ==
    LET fl == ResetSuffix(b.flushedPoint.location)
        b1 == [b EXCEPT !.flushedPoint.location = fl, !.savedPoint.location = fl]
        isSchemaChanged == (trackedTi # b1.savedPoint.ti) \/ (b1.savedPoint.ti # b1.flushedPoint.ti)
    IN  IF b1.savedPoint.ti = NilTI THEN b1
        ELSE IF isSchemaChanged THEN [b1 EXCEPT !.savedPoint.ti = b1.flushedPoint.ti]
        ELSE b1

outOfDateBy(b, pos) == CompareLocation(pos, b.flushedPoint.location) > 0

\* an outOfDate that also takes a point saved at its flushed location
outOfDateOrEqual(b) ==
    CompareLocation(b.savedPoint.location, b.flushedPoint.location) >= 0

outOfDate(b) == outOfDateBy(b, b.savedPoint.location)

(***************************************************************************)
(* The checkpoint table: one row per key, written by genUpdateSQL.         *)
(***************************************************************************)
\* a genUpdateSQL that writes null for every table info
genUpdateSQLWithoutTableInfo(key, location, safeModeExitLoc, tiBytes, isGlobal) ==
    [key |-> IF isGlobal THEN GlobalKey ELSE key,
     binlog_pos |-> location.pos,
     exit_safe_binlog_pos |-> IF safeModeExitLoc = <<>> THEN 0 ELSE safeModeExitLoc[1].pos,
     table_info |-> NilTI,
     is_global |-> isGlobal]

\* the row genUpdateSQL upserts; the suffix of a location is not a column,
\* a nil table info is stored as the JSON text null (NilTI), a nil
\* safe-mode-exit pointer as an empty name and position 0
genUpdateSQL(key, location, safeModeExitLoc, tiBytes, isGlobal) ==
    [key |-> IF isGlobal THEN GlobalKey ELSE key,
     binlog_pos |-> location.pos,
     exit_safe_binlog_pos |-> IF safeModeExitLoc = <<>> THEN 0 ELSE safeModeExitLoc[1].pos,
     table_info |-> tiBytes,
     is_global |-> isGlobal]

\* INSERT ... ON DUPLICATE KEY UPDATE of a set of rows with distinct keys
ExecuteSQL(st, rows) ==
    LET keys == {r.key : r \in rows}
        rowOf(k) == CHOOSE r \in rows : r.key = k
    IN  [k \in (DOMAIN st) \cup keys |-> IF k \in keys THEN rowOf(k) ELSE st[k]]

\* binlog.InitLocation from the stored columns
InitLocation(pos) == [pos |-> pos, suffix |-> 0]

(***************************************************************************)
(* Initial state: NewRemoteCheckPoint.                                     *)
(***************************************************************************)
NoFlush == [pc |-> "idle"]

InitEngine ==
    /\ points = EmptyMap
    /\ globalPoint = newBinlogPoint(NewLocation, NewLocation, NilTI, NilTI)
    /\ globalPointSaveTime = FALSE
    /\ snapshots = <<>>
    /\ snapshotSeq = 0
    /\ safeModeExitPoint = <<>>
    /\ needFlushSafeModeExitPoint = FALSE
    /\ store = EmptyMap
    /\ flushing = NoFlush
    /\ cpLock = "free"
    /\ cpRet = <<"none", "nil">>

InitCheckpoint == InitEngine /\ cpCalls = 0

\* a call can start: the budget of steps is not used up
CanCall == cpCalls < MaxCalls
Count == cpCalls' = cpCalls + 1

\* the table pointers a running FlushPointsExcept holds, without those of
\* the keys whose binlogPoint object has been replaced or dropped
Orphan(f, keys) ==
    IF f.pc = "idle" THEN f
    ELSE [f EXCEPT !.points = [k \in (DOMAIN f.points) \ keys |-> f.points[k]]]

(***************************************************************************)
(* SaveTablePoint / saveTablePoint.                                        *)
(***************************************************************************)
\* a saveTablePoint that does not compare the location with the global point
saveTablePointBehindGlobal(pts, gp, tbl, location, ti) ==
    IF tbl \notin DOMAIN pts
    THEN [points |-> (tbl :> newBinlogPoint(location, NewLocation, ti, NilTI)) @@ pts,
          res |-> "nil"]
    ELSE LET r == save(pts[tbl], location, ti)
         IN  [points |-> [pts EXCEPT ![tbl] = r.point], res |-> r.err]

\* a saveTablePoint that stores the point before it looks at the global point
saveTablePointThenPanic(pts, gp, tbl, location, ti) ==
    LET stored == IF tbl \notin DOMAIN pts
                  THEN [points |-> (tbl :> newBinlogPoint(location, NewLocation, ti, NilTI)) @@ pts,
                        res |-> "nil"]
                  ELSE LET r == save(pts[tbl], location, ti)
                       IN  [points |-> [pts EXCEPT ![tbl] = r.point], res |-> r.err]
    IN  IF CompareLocation(gp.savedPoint.location, location) > 0
        THEN [points |-> stored.points, res |-> "panic"]
        ELSE stored

\* saveTablePoint without the lock: the new map and what happened
saveTablePoint(pts, gp, tbl, location, ti) ==
    IF CompareLocation(gp.savedPoint.location, location) > 0
    THEN [points |-> pts, res |-> "panic"]
    ELSE IF tbl \notin DOMAIN pts
    THEN [points |-> (tbl :> newBinlogPoint(location, NewLocation, ti, NilTI)) @@ pts,
          res |-> "nil"]
    ELSE LET r == save(pts[tbl], location, ti)
         IN  [points |-> [pts EXCEPT ![tbl] = r.point], res |-> r.err]

SaveTablePoint(tbl, location, ti) ==
    /\ CanCall /\ cpLock = "free"
    /\ LET r == saveTablePoint(points, globalPoint, tbl, location, ti)
       IN  /\ points' = r.points
           /\ cpRet' = <<"SaveTablePoint", r.res>>
    /\ Count
    /\ UNCHANGED outsideCheckpoint
    /\ UNCHANGED <<globalPoint, globalPointSaveTime, snapshots, snapshotSeq,
                   safeModeExitPoint, needFlushSafeModeExitPoint, store, flushing, cpLock>>

(***************************************************************************)
(* IsOlderThanTablePoint, a query under the read lock: whether an event at *)
(* location can be skipped for the table.  enableGTID is cfg.EnableGTID.   *)
(***************************************************************************)
\* IsOlderThanTablePoint that skips a DML of GTID mode at the saved location
IsOlderThanTablePointNeverStrict(pts, tbl, location, isDDL, enableGTID) ==
    IF tbl \notin DOMAIN pts
    THEN FALSE
    ELSE CompareLocation(location, pts[tbl].savedPoint.location) <= 0

IsOlderThanTablePoint(pts, tbl, location, isDDL, enableGTID) ==
    IF tbl \notin DOMAIN pts
    THEN FALSE
    ELSE LET oldLocation == pts[tbl].savedPoint.location
         IN  IF isDDL \/ ~enableGTID
             THEN CompareLocation(location, oldLocation) <= 0
             ELSE CompareLocation(location, oldLocation) < 0

(***************************************************************************)
(* SaveGlobalPoint.                                                        *)
(***************************************************************************)
SaveGlobalPoint(location) ==
    /\ CanCall /\ cpLock = "free"
    /\ LET r == save(globalPoint, location, NilTI)
       IN  /\ globalPoint' = r.point
           /\ cpRet' = <<"SaveGlobalPoint", r.err>>
    /\ Count
    /\ UNCHANGED outsideCheckpoint
    /\ UNCHANGED <<points, globalPointSaveTime, snapshots, snapshotSeq,
                   safeModeExitPoint, needFlushSafeModeExitPoint, store, flushing, cpLock>>

(***************************************************************************)
(* SaveSafeModeExitPoint (takes no lock).                                  *)
(***************************************************************************)
\* a SaveSafeModeExitPoint that takes every location, older ones included
SaveSafeModeExitPointAlways(point) ==
    /\ CanCall
    /\ safeModeExitPoint' = point
    /\ needFlushSafeModeExitPoint' = TRUE
    /\ cpRet' = <<"SaveSafeModeExitPoint", "nil">>
    /\ Count
    /\ UNCHANGED outsideCheckpoint
    /\ UNCHANGED <<points, globalPoint, globalPointSaveTime, snapshots, snapshotSeq,
                   store, flushing, cpLock>>

SaveSafeModeExitPoint(point) ==
    /\ CanCall
    /\ IF \/ safeModeExitPoint = <<>>
          \/ point = <<>>
          \/ CompareLocation(point[1], safeModeExitPoint[1]) > 0
       THEN /\ safeModeExitPoint' = point
            /\ needFlushSafeModeExitPoint' = TRUE
       ELSE UNCHANGED <<safeModeExitPoint, needFlushSafeModeExitPoint>>
    /\ cpRet' = <<"SaveSafeModeExitPoint", "nil">>
    /\ Count
    /\ UNCHANGED outsideCheckpoint
    /\ UNCHANGED <<points, globalPoint, globalPointSaveTime, snapshots, snapshotSeq,
                   store, flushing, cpLock>>

(***************************************************************************)
(* Snapshot.                                                               *)
(***************************************************************************)
\* a Snapshot that takes the sequence number as it is
staleSnapshotID(seq) == seq

\* cp.snapshotSeq++; id := cp.snapshotSeq
mintSnapshotID(seq) == seq + 1

Snapshot(isSyncFlush) ==
    /\ CanCall /\ cpLock = "free"
    /\ snapshotSeq < MaxSeq /\ Len(snapshots) < MaxSnapshots
    /\ LET id == mintSnapshotID(snapshotSeq)
           tableCheckPoints ==
               [k \in {t \in DOMAIN points : outOfDate(points[t])} |-> points[k].savedPoint]
           flushGlobalPoint ==
               \/ outOfDate(globalPoint)
               \/ ~globalPointSaveTime
               \/ (isSyncFlush /\ needFlushSafeModeExitPoint)
       IN  /\ snapshotSeq' = id
           /\ IF DOMAIN tableCheckPoints = {} /\ ~flushGlobalPoint
              THEN /\ UNCHANGED snapshots
                   /\ cpRet' = <<"Snapshot", "nil">>
              ELSE /\ snapshots' = Append(snapshots,
                          [id |-> id,
                           globalPoint |-> IF flushGlobalPoint
                                           THEN <<globalPoint.savedPoint>> ELSE <<>>,
                           points |-> tableCheckPoints])
                   /\ cpRet' = <<"Snapshot", "id">>
    /\ Count
    /\ UNCHANGED outsideCheckpoint
    /\ UNCHANGED <<points, globalPoint, globalPointSaveTime, safeModeExitPoint,
                   needFlushSafeModeExitPoint, store, flushing, cpLock>>

(***************************************************************************)
(* FlushPointsExcept: the part under cp.Lock (lines 625-693), then the SQL *)
(* batch and the part after it (lines 695-714).                            *)
(***************************************************************************)
\* the tables of the head snapshot that are flushed: not excepted and still
\* out of date by the snapshot value
ToFlush(snapshotCp, exceptTables) ==
    {k \in (DOMAIN snapshotCp.points) \ exceptTables :
        k \in DOMAIN points /\ outOfDateBy(points[k], snapshotCp.points[k].location)}

\* the snapshot has a table that is not excepted and has no entry in
\* cp.points: tableCP is nil and outOfDateBy dereferences it
NilTableCP(snapshotCp, exceptTables) ==
    \E k \in (DOMAIN snapshotCp.points) \ exceptTables : k \notin DOMAIN points

FlushRows(snapshotCp, exceptTables) ==
    (IF snapshotCp.globalPoint # <<>>
     THEN {genUpdateSQL(GlobalKey, snapshotCp.globalPoint[1].location,
                        safeModeExitPoint, NilTI, TRUE)}
     ELSE {})
    \cup {genUpdateSQL(k, snapshotCp.points[k].location, <<>>,
                       snapshotCp.points[k].ti, FALSE) :
             k \in ToFlush(snapshotCp, exceptTables)}

\* DPanic panics in a development build and only logs in a production build
Builds == {"development", "production"}

\* marshalOk: json.Marshal of the table infos of the batch returns no error

FlushPointsExceptBegin(snapshotID, exceptTables) ==
    /\ CanCall /\ cpLock = "free" /\ flushing.pc = "idle"
    /\ \E build \in Builds, marshalOk \in BOOLEAN :
        LET notFound == Len(snapshots) = 0 \/ snapshots[1].id # snapshotID
        IN  IF (notFound /\ build = "development") \/ Len(snapshots) = 0
            THEN \* DPanic, or snapshots[0] out of range: the lock stays held
                 /\ cpLock' = "held"
                 /\ cpRet' = <<"FlushPointsExcept", "panic">>
                 /\ UNCHANGED <<snapshots, flushing>>
            ELSE LET snapshotCp == snapshots[1]
                 IN  /\ snapshots' = Tail(snapshots)
                     /\ IF ~marshalOk /\ ToFlush(snapshotCp, exceptTables) # {}
                        THEN \* json.Marshal(point.ti) failed: the return at
                             \* line 673, before cp.Unlock()
                             /\ cpLock' = "held"
                             /\ cpRet' = <<"FlushPointsExcept",
                                           "ErrSchemaTrackerCannotSerialize">>
                             /\ UNCHANGED flushing
                        ELSE IF NilTableCP(snapshotCp, exceptTables)
                        THEN /\ cpLock' = "held"
                             /\ cpRet' = <<"FlushPointsExcept", "panic">>
                             /\ UNCHANGED flushing
                        ELSE /\ flushing' =
                                   [pc |-> "exec",
                                    snapshotID |-> snapshotID,
                                    snapshotCp |-> snapshotCp,
                                    rows |-> FlushRows(snapshotCp, exceptTables),
                                    points |-> [k \in ToFlush(snapshotCp, exceptTables)
                                                  |-> snapshotCp.points[k]]]
                             /\ cpRet' = <<"FlushPointsExcept", "exec">>
                             /\ UNCHANGED cpLock
    /\ Count
    /\ UNCHANGED outsideCheckpoint
    /\ UNCHANGED <<points, globalPoint, globalPointSaveTime, snapshotSeq,
                   safeModeExitPoint, needFlushSafeModeExitPoint, store>>

\* a failed FlushPointsExcept that clears the needs-flush flag all the same
FlushPointsExceptFailClearsFlag ==
    /\ flushing.pc = "exec"
    /\ flushing' = NoFlush
    /\ needFlushSafeModeExitPoint' = FALSE
    /\ cpRet' = <<"FlushPointsExcept", "err">>
    /\ UNCHANGED outsideCheckpoint
    /\ UNCHANGED <<points, globalPoint, globalPointSaveTime, snapshots, snapshotSeq,
                   safeModeExitPoint, store, cpLock, cpCalls>>

\* the SQL batch failed: the error is returned
FlushPointsExceptFail ==
    /\ flushing.pc = "exec"
    /\ flushing' = NoFlush
    /\ cpRet' = <<"FlushPointsExcept", "err">>
    /\ UNCHANGED outsideCheckpoint
    /\ UNCHANGED <<points, globalPoint, globalPointSaveTime, snapshots, snapshotSeq,
                   safeModeExitPoint, needFlushSafeModeExitPoint, store, cpLock, cpCalls>>

\* the SQL batch succeeded: the flushed points advance
FlushPointsExceptFinish ==
    /\ flushing.pc = "exec"
    /\ flushing.snapshotCp.globalPoint # <<>> => cpLock = "free"
    /\ store' = ExecuteSQL(store, flushing.rows)
    /\ IF flushing.snapshotCp.globalPoint # <<>>
       THEN /\ globalPoint' = flushBy(globalPoint, flushing.snapshotCp.globalPoint[1])
            /\ globalPointSaveTime' = TRUE
       ELSE UNCHANGED <<globalPoint, globalPointSaveTime>>
    /\ points' = [k \in DOMAIN points |->
                    IF k \in DOMAIN flushing.points
                    THEN flushBy(points[k], flushing.points[k]) ELSE points[k]]
    /\ needFlushSafeModeExitPoint' = FALSE
    /\ flushing' = NoFlush
    /\ cpRet' = <<"FlushPointsExcept", "nil">>
    /\ UNCHANGED outsideCheckpoint
    /\ UNCHANGED <<snapshots, snapshotSeq, safeModeExitPoint, cpLock, cpCalls>>

(***************************************************************************)
(* FlushPointsWithTableInfos: tis maps each given table to its table info. *)
(* The tables fit in one batch (batchFlushPoints is 100).                  *)
(***************************************************************************)
\* cp.points after the loop that creates the missing points at the global
\* saved location (saveTablePoint cannot panic there)
WithCreatedPoints(tis) ==
    [k \in (DOMAIN points) \cup (DOMAIN tis) |->
        IF k \in DOMAIN points THEN points[k]
        ELSE newBinlogPoint(globalPoint.savedPoint.location, NewLocation, tis[k], NilTI)]

FlushPointsWithTableInfos(tis, sqlOk) ==
    /\ CanCall /\ cpLock = "free"
    /\ LET created == WithCreatedPoints(tis)
           rows == {genUpdateSQL(k, created[k].savedPoint.location, <<>>, tis[k], FALSE) :
                       k \in DOMAIN tis}
       IN  IF sqlOk
           THEN /\ store' = ExecuteSQL(store, rows)
                /\ points' = [k \in DOMAIN created |->
                                IF k \in DOMAIN tis THEN flush(created[k]) ELSE created[k]]
                /\ cpRet' = <<"FlushPointsWithTableInfos", "nil">>
           ELSE /\ points' = created
                /\ cpRet' = <<"FlushPointsWithTableInfos", "err">>
                /\ UNCHANGED store
    /\ Count
    /\ UNCHANGED outsideCheckpoint
    /\ UNCHANGED <<globalPoint, globalPointSaveTime, snapshots, snapshotSeq,
                   safeModeExitPoint, needFlushSafeModeExitPoint, flushing, cpLock>>

(***************************************************************************)
(* Rollback (under the read lock); tracked is what the schema tracker      *)
(* holds for each table.  The calls on the tracker are not modelled.       *)
(***************************************************************************)
Rollback(tracked) ==
    /\ CanCall /\ cpLock = "free"
    /\ globalPoint' = rollback(globalPoint, NilTI)
    /\ points' = [k \in DOMAIN points |-> rollback(points[k], tracked[k])]
    /\ cpRet' = <<"Rollback", "nil">>
    /\ Count
    /\ UNCHANGED outsideCheckpoint
    /\ UNCHANGED <<globalPointSaveTime, snapshots, snapshotSeq, safeModeExitPoint,
                   needFlushSafeModeExitPoint, store, flushing, cpLock>>

(***************************************************************************)
(* Load: every stored row replaces the in-memory entry of its key.         *)
(***************************************************************************)
\* the safe-mode-exit pointer after Load, which calls SaveSafeModeExitPoint
\* when the global row has a non-empty exit_safe_binlog_name
LoadedExitPoint ==
    IF GlobalKey \in DOMAIN store /\ store[GlobalKey].exit_safe_binlog_pos # 0
    THEN <<InitLocation(store[GlobalKey].exit_safe_binlog_pos)>>
    ELSE <<>>

\* the rows of tables, and the location a row holds
TableRows == (DOMAIN store) \ {GlobalKey}
RowLocation(k) == InitLocation(store[k].binlog_pos)

\* cp.points after the loop over the rows, from the map pts
LoadedPoints(pts) ==
    [k \in (DOMAIN pts) \cup TableRows |->
        IF k \in TableRows
        THEN newBinlogPoint(RowLocation(k), RowLocation(k),
                            store[k].table_info, store[k].table_info)
        ELSE pts[k]]

\* cp.globalPoint after the loop over the rows, from the point gp
LoadedGlobalPoint(gp) ==
    IF GlobalKey \in DOMAIN store /\ ~IsFreshPosition(RowLocation(GlobalKey))
    THEN newBinlogPoint(RowLocation(GlobalKey), RowLocation(GlobalKey), NilTI, NilTI)
    ELSE gp

Load(queryOk) ==
    /\ CanCall /\ cpLock = "free"
    /\ IF ~queryOk
       THEN /\ cpRet' = <<"Load", "err">>
            /\ UNCHANGED <<points, globalPoint, safeModeExitPoint,
                           needFlushSafeModeExitPoint, flushing>>
       ELSE LET tableRows == TableRows
                exit == LoadedExitPoint
            IN  /\ points' = LoadedPoints(points)
                /\ globalPoint' = LoadedGlobalPoint(globalPoint)
                /\ IF /\ exit # <<>>
                      /\ \/ safeModeExitPoint = <<>>
                         \/ CompareLocation(exit[1], safeModeExitPoint[1]) > 0
                   THEN /\ safeModeExitPoint' = exit
                        /\ needFlushSafeModeExitPoint' = TRUE
                   ELSE UNCHANGED <<safeModeExitPoint, needFlushSafeModeExitPoint>>
                /\ flushing' = Orphan(flushing, tableRows)
                /\ cpRet' = <<"Load", "nil">>
    /\ Count
    /\ UNCHANGED outsideCheckpoint
    /\ UNCHANGED <<globalPointSaveTime, snapshots, snapshotSeq, store, cpLock>>

(***************************************************************************)
(* Clear.                                                                  *)
(***************************************************************************)
Clear(sqlOk) ==
    /\ CanCall /\ cpLock = "free"
    /\ IF ~sqlOk
       THEN /\ cpRet' = <<"Clear", "err">>
            /\ UNCHANGED <<points, globalPoint, globalPointSaveTime, snapshots,
                           safeModeExitPoint, store, flushing>>
       ELSE /\ store' = EmptyMap
            /\ globalPoint' = newBinlogPoint(NewLocation, NewLocation, NilTI, NilTI)
            /\ globalPointSaveTime' = FALSE
            /\ points' = EmptyMap
            /\ snapshots' = <<>>
            /\ safeModeExitPoint' = <<>>
            /\ flushing' = Orphan(flushing, TableKeys)
            /\ cpRet' = <<"Clear", "nil">>
    /\ Count
    /\ UNCHANGED outsideCheckpoint
    /\ UNCHANGED <<snapshotSeq, needFlushSafeModeExitPoint, cpLock>>

(***************************************************************************)
(* DeleteTablePoint and DeleteSchemaPoint: the rows are deleted from the   *)
(* store, then the entries from cp.points; the snapshots are left alone.   *)
(***************************************************************************)
\* DELETE FROM ... WHERE cp_schema = ? AND cp_table = ? (or cp_schema = ?)
DeleteRows(st, keys) == [k \in (DOMAIN st) \ keys |-> st[k]]

\* the keys of cp.points[sourceSchema]
SchemaKeys(sourceSchema) == {k \in DOMAIN points : k[1] = sourceSchema}

\* the engine after the rows and the entries of keys are deleted, and what
\* the call returns
DeletePoints(keys, sqlOk) ==
    IF keys = {}
    THEN [points |-> points, store |-> store, flushing |-> flushing, err |-> "nil"]
    ELSE IF ~sqlOk
    THEN [points |-> points, store |-> store, flushing |-> flushing, err |-> "err"]
    ELSE [points |-> [k \in (DOMAIN points) \ keys |-> points[k]],
          store |-> DeleteRows(store, keys),
          flushing |-> Orphan(flushing, keys),
          err |-> "nil"]

DeleteTablePoint(table, sqlOk) ==
    /\ CanCall /\ cpLock = "free"
    /\ LET r == DeletePoints({table} \cap DOMAIN points, sqlOk)
       IN  /\ points' = r.points
           /\ store' = r.store
           /\ flushing' = r.flushing
           /\ cpRet' = <<"DeleteTablePoint", r.err>>
    /\ Count
    /\ UNCHANGED outsideCheckpoint
    /\ UNCHANGED <<globalPoint, globalPointSaveTime, snapshots, snapshotSeq,
                   safeModeExitPoint, needFlushSafeModeExitPoint, cpLock>>

\* a schema map emptied by DeleteTablePoint is taken as absent
DeleteSchemaPoint(sourceSchema, sqlOk) ==
    /\ CanCall /\ cpLock = "free"
    /\ LET r == DeletePoints(SchemaKeys(sourceSchema), sqlOk)
       IN  /\ points' = r.points
           /\ store' = r.store
           /\ flushing' = r.flushing
           /\ cpRet' = <<"DeleteSchemaPoint", r.err>>
    /\ Count
    /\ UNCHANGED outsideCheckpoint
    /\ UNCHANGED <<globalPoint, globalPointSaveTime, snapshots, snapshotSeq,
                   safeModeExitPoint, needFlushSafeModeExitPoint, cpLock>>

(***************************************************************************)
(* The checkpoint engine's specification.                                  *)
(***************************************************************************)
(***************************************************************************)
(* The scheduler agent.  Tick runs on one goroutine, the handlers of the   *)
(* owner's messages on others (Handlers); a step is one access to the      *)
(* shared state together with the local work next to it.                   *)
(***************************************************************************)
CaptureIDs == {"A", "B"}
TableIDs == 1..MaxTable
Handlers == {"h1", "h2"}

operationReceived == 1
operationProcessed == 2
operationFinished == 3

\* agentOperation; rev is the OwnerRev of the message that dispatched it
\* (not a field of the code: it names the owner the operation came from)
agentOperation(tableID, isDelete, rev) ==
    [TableID |-> tableID, IsDelete |-> isDelete, status |-> operationReceived, rev |-> rev]

IdleHandler == [pc |-> "idle", ret |-> "none"]

InitAgent ==
    /\ ownerInfo = [OwnerCaptureID |-> "", OwnerRev |-> 0]
    /\ ownerHasChanged = FALSE
    /\ needSyncNow = TRUE
    /\ pendingOps = <<>>
    /\ tableOperations = EmptyMap
    /\ tick = "idle"
    /\ cb = [h \in Handlers |-> IdleHandler]
    /\ lastCalls = {}
    /\ tickRet = "none"
    /\ syncOwed = "none"
    /\ msgs = 0
    /\ notifiedOwner = ""
    /\ notifyOwed = "none"
    /\ notifyDue = "none"

Call(fn, arg, res) == [fn |-> fn, arg |-> arg, res |-> res]

(***************************************************************************)
(* updateOwnerInfo under ownerInfoMu.  When it replaces the owner it       *)
(* takes two steps: the assignment of a.ownerInfo, then                    *)
(* a.ownerHasChanged.Store(true) and the reset of pendingOps; Tick swaps   *)
(* the flag without the lock and may do so between the two.                *)
(***************************************************************************)
\* an updateOwnerInfo that takes the revision of a newer owner and keeps the
\* capture ID it had
updateOwnerInfoKeepsCaptureID(info, ownerCaptureID, ownerRev) ==
    IF info.OwnerRev < ownerRev
    THEN [ownerInfo |-> [info EXCEPT !.OwnerRev = ownerRev], changed |-> TRUE, ret |-> "true"]
    ELSE IF info.OwnerRev > ownerRev
    THEN [ownerInfo |-> info, changed |-> FALSE, ret |-> "false"]
    ELSE IF info.OwnerCaptureID # ownerCaptureID
    THEN [ownerInfo |-> info, changed |-> FALSE, ret |-> "panic"]
    ELSE [ownerInfo |-> info, changed |-> FALSE, ret |-> "true"]

\* an updateOwnerInfo that does not compare the capture IDs of equal revisions
updateOwnerInfoIgnoresCaptureID(info, ownerCaptureID, ownerRev) ==
    IF info.OwnerRev < ownerRev
    THEN [ownerInfo |-> [OwnerCaptureID |-> ownerCaptureID, OwnerRev |-> ownerRev],
          changed |-> TRUE, ret |-> "true"]
    ELSE IF info.OwnerRev > ownerRev
    THEN [ownerInfo |-> info, changed |-> FALSE, ret |-> "false"]
    ELSE [ownerInfo |-> info, changed |-> FALSE, ret |-> "true"]

\* an updateOwnerInfo that lets the message of an older owner through
updateOwnerInfoAcceptsStale(info, ownerCaptureID, ownerRev) ==
    IF info.OwnerRev < ownerRev
    THEN [ownerInfo |-> [OwnerCaptureID |-> ownerCaptureID, OwnerRev |-> ownerRev],
          changed |-> TRUE, ret |-> "true"]
    ELSE IF info.OwnerRev = ownerRev /\ info.OwnerCaptureID # ownerCaptureID
    THEN [ownerInfo |-> info, changed |-> FALSE, ret |-> "panic"]
    ELSE [ownerInfo |-> info, changed |-> FALSE, ret |-> "true"]

updateOwnerInfo(info, ownerCaptureID, ownerRev) ==
    IF info.OwnerRev < ownerRev
    THEN [ownerInfo |-> [OwnerCaptureID |-> ownerCaptureID, OwnerRev |-> ownerRev],
          changed |-> TRUE, ret |-> "true"]
    ELSE IF info.OwnerRev > ownerRev
    THEN [ownerInfo |-> info, changed |-> FALSE, ret |-> "false"]
    ELSE IF info.OwnerCaptureID # ownerCaptureID
    THEN [ownerInfo |-> info, changed |-> FALSE, ret |-> "panic"]
    ELSE [ownerInfo |-> info, changed |-> FALSE, ret |-> "true"]

\* ownerInfoMu is held by the handler that is between the two steps
OwnerInfoMuHeld == \E h \in Handlers : cb[h].pc = "changed"

\* the effect of updateOwnerInfo on the agent, and the handler's next step
\* (next) when the message is accepted
UpdateOwnerInfoStep(h, ownerCaptureID, ownerRev, next) ==
    LET r == updateOwnerInfo(ownerInfo, ownerCaptureID, ownerRev)
    IN  /\ ~OwnerInfoMuHeld
        /\ ownerInfo' = r.ownerInfo
        /\ cb' = [cb EXCEPT ![h] = IF r.changed THEN [pc |-> "changed", next |-> next]
                                   ELSE IF r.ret = "true" THEN next
                                   ELSE [pc |-> "idle", ret |-> r.ret]]
        /\ notifyOwed' = IF r.changed THEN "replaced" ELSE notifyOwed
        /\ UNCHANGED <<ownerHasChanged, pendingOps, notifiedOwner, notifyDue>>

\* updateOwnerInfo after the assignment: a.ownerHasChanged.Store(true), the
\* reset of pendingOps under pendingOpsMu, and the return
StoreOwnerHasChanged(h) ==
    /\ cb[h].pc = "changed"
    /\ ownerHasChanged' = TRUE
    /\ pendingOps' = <<>>
    /\ cb' = [cb EXCEPT ![h] = cb[h].next]
    /\ notifyOwed' = "flagged"
    /\ lastCalls' = {}
    /\ UNCHANGED <<ownerInfo, needSyncNow, tableOperations, tick, tickRet, syncOwed,
                   msgs, notifiedOwner, notifyDue>>
    /\ UNCHANGED outsideAgent

\* the inbound-message task hands a message to the first handler goroutine
\* that is free (the goroutines are interchangeable)
FreeHandler(h) == cb[h].pc = "idle" /\ (h = "h2" => cb["h1"].pc # "idle")

\* OnOwnerDispatchedTask up to the return of updateOwnerInfo
OnOwnerDispatchedTask(h, ownerCaptureID, ownerRev, tableID, isDelete) ==
    /\ FreeHandler(h) /\ msgs < MaxMsgs
    /\ UpdateOwnerInfoStep(h, ownerCaptureID, ownerRev,
           [pc |-> "push", op |-> agentOperation(tableID, isDelete, ownerRev)])
    /\ msgs' = msgs + 1
    /\ lastCalls' = {}
    /\ UNCHANGED <<needSyncNow, tableOperations, tick, tickRet, syncOwed>>
    /\ UNCHANGED outsideAgent

\* OnOwnerDispatchedTask: a.pendingOps.PushBack(op) under pendingOpsMu
PushPendingOp(h) ==
    /\ cb[h].pc = "push"
    /\ pendingOps' = Append(pendingOps, cb[h].op)
    /\ cb' = [cb EXCEPT ![h] = [pc |-> "idle", ret |-> "true"]]
    /\ lastCalls' = {}
    /\ UNCHANGED <<ownerInfo, ownerHasChanged, needSyncNow, tableOperations, tick,
                   tickRet, syncOwed, msgs>>
    /\ UNCHANGED <<notifiedOwner, notifyOwed, notifyDue>>
    /\ UNCHANGED outsideAgent

\* OnOwnerAnnounce up to the return of updateOwnerInfo
OnOwnerAnnounce(h, ownerCaptureID, ownerRev) ==
    /\ FreeHandler(h) /\ msgs < MaxMsgs
    /\ UpdateOwnerInfoStep(h, ownerCaptureID, ownerRev, [pc |-> "announce"])
    /\ msgs' = msgs + 1
    /\ lastCalls' = {}
    /\ UNCHANGED <<needSyncNow, tableOperations, tick, tickRet, syncOwed>>
    /\ UNCHANGED outsideAgent

\* OnOwnerAnnounce: a.needSyncNow.Store(true), then it returns
StoreNeedSync(h) ==
    /\ cb[h].pc = "announce"
    /\ needSyncNow' = TRUE
    /\ syncOwed' = IF syncOwed = "due" THEN "due" ELSE "owed"
    /\ cb' = [cb EXCEPT ![h] = [pc |-> "idle", ret |-> "true"]]
    /\ lastCalls' = {}
    /\ UNCHANGED <<ownerInfo, ownerHasChanged, pendingOps, tableOperations, tick,
                   tickRet, msgs>>
    /\ UNCHANGED <<notifiedOwner, notifyOwed, notifyDue>>
    /\ UNCHANGED outsideAgent

(***************************************************************************)
(* Tick.                                                                   *)
(***************************************************************************)
Results == {"done", "retry", "err"}

\* util.SortTableIDs: the IDs of a set in increasing order
RECURSIVE SortTableIDs(_)
SortTableIDs(S) ==
    IF S = {} THEN <<>>
    ELSE LET m == CHOOSE x \in S : \A y \in S : x <= y
         IN  <<m>> \o SortTableIDs(S \ {m})

\* a sendSync that reports every table of the executor as running
SyncPayloadRunningAll(current) ==
    [running |-> SortTableIDs(current),
     adding |-> SortTableIDs({t \in DOMAIN tableOperations : ~tableOperations[t].IsDelete}),
     removing |-> SortTableIDs({t \in DOMAIN tableOperations : tableOperations[t].IsDelete})]

\* the payload sendSync passes to SyncTaskStatuses when the executor runs
\* the tables current
SyncPayload(current) ==
    [running |-> SortTableIDs({t \in current : t \notin DOMAIN tableOperations}),
     adding |-> SortTableIDs({t \in DOMAIN tableOperations : ~tableOperations[t].IsDelete}),
     removing |-> SortTableIDs({t \in DOMAIN tableOperations : tableOperations[t].IsDelete})]

\* the SyncTaskStatuses call of sendSync, with what GetAllCurrentTables
\* returned before it
SyncCall(current, payload, res) ==
    [fn |-> "SyncTaskStatuses", arg |-> payload, res |-> res, current |-> current]

\* a Tick that returns: ret is its result
TickReturns(ret) ==
    /\ tick' = "idle"
    /\ tickRet' = ret

\* a.ownerHasChanged.Swap(false)
TickSwapOwnerHasChanged ==
    /\ tick = "idle"
    /\ ownerHasChanged' = FALSE
    /\ tick' = IF ownerHasChanged THEN "notify" ELSE "load"
    /\ tickRet' = "running"
    /\ lastCalls' = {}
    /\ syncOwed' = IF syncOwed = "owed" THEN "due" ELSE syncOwed
    /\ UNCHANGED <<ownerInfo, needSyncNow, pendingOps, tableOperations, cb, msgs>>
    /\ notifyDue' = notifyOwed
    /\ notifyOwed' = IF notifyOwed = "flagged" THEN "none" ELSE notifyOwed
    /\ UNCHANGED notifiedOwner
    /\ UNCHANGED outsideAgent

\* a.communicator.OnOwnerChanged(ctx, a.currentOwner()); currentOwner takes
\* the read lock of ownerInfoMu
TickOnOwnerChanged ==
    /\ tick = "notify"
    /\ ~OwnerInfoMuHeld
    /\ lastCalls' = {Call("OnOwnerChanged", ownerInfo.OwnerCaptureID, "")}
    /\ tick' = "load"
    /\ UNCHANGED <<ownerInfo, ownerHasChanged, needSyncNow, pendingOps, tableOperations,
                   cb, tickRet, syncOwed, msgs>>
    /\ notifiedOwner' = ownerInfo.OwnerCaptureID
    /\ notifyDue' = "none"
    /\ UNCHANGED notifyOwed
    /\ UNCHANGED outsideAgent

\* a Tick that goes on with the pass whether or not the sync is done
afterSendSyncIgnoresDone(res) ==
    IF res = "err" THEN [tick |-> "idle", tickRet |-> "err"]
    ELSE [tick |-> "store", tickRet |-> tickRet]

\* what Tick does with the (done, err) that sendSync returned
afterSendSync(res) ==
    IF res = "err" THEN [tick |-> "idle", tickRet |-> "err"]
    ELSE IF res # "done" THEN [tick |-> "idle", tickRet |-> "nil"]
    ELSE [tick |-> "store", tickRet |-> tickRet]

\* a.needSyncNow.Load() and, when it is set, sendSync
TickSendSync ==
    /\ tick = "load"
    /\ IF needSyncNow
       THEN \E current \in SUBSET TableIDs, res \in Results :
              /\ lastCalls' = {SyncCall(current, SyncPayload(current), res)}
              /\ syncOwed' = "none"
              /\ tick' = afterSendSync(res).tick
              /\ tickRet' = afterSendSync(res).tickRet
       ELSE /\ lastCalls' = {}
            /\ tick' = "checkpoint"
            /\ UNCHANGED <<tickRet, syncOwed>>
    /\ UNCHANGED <<ownerInfo, ownerHasChanged, needSyncNow, pendingOps, tableOperations,
                   cb, msgs>>
    /\ UNCHANGED <<notifiedOwner, notifyOwed, notifyDue>>
    /\ UNCHANGED outsideAgent

\* a.needSyncNow.Store(false)
TickStoreNeedSync ==
    /\ tick = "store"
    /\ needSyncNow' = FALSE
    /\ tick' = "checkpoint"
    /\ lastCalls' = {}
    /\ UNCHANGED <<ownerInfo, ownerHasChanged, pendingOps, tableOperations, cb,
                   tickRet, syncOwed, msgs>>
    /\ UNCHANGED <<notifiedOwner, notifyOwed, notifyDue>>
    /\ UNCHANGED outsideAgent

\* sendCheckpoint: the checkpoint sender asks the provider and, when the
\* executor runs a table and a checkpoint is to be sent, the messenger
SendCheckpoint(send, res) ==
    IF send THEN {Call("SendCheckpoint", "", res)} ELSE {}

TickSendCheckpoint ==
    /\ tick = "checkpoint"
    /\ \E send \in BOOLEAN, res \in Results :
          /\ lastCalls' = SendCheckpoint(send, res)
          /\ IF send /\ res = "err"
             THEN TickReturns("err")
             ELSE tick' = "pop" /\ UNCHANGED tickRet
    /\ UNCHANGED <<ownerInfo, ownerHasChanged, needSyncNow, pendingOps, tableOperations,
                   cb, syncOwed, msgs>>
    /\ UNCHANGED <<notifiedOwner, notifyOwed, notifyDue>>
    /\ UNCHANGED outsideAgent

\* a loop that stores every operation, also over an entry of the map
RECURSIVE ApplyOpsOverwrite(_, _)
ApplyOpsOverwrite(tableOps, opsToApply) ==
    IF opsToApply = <<>> THEN [tableOperations |-> tableOps, duplicate |-> FALSE]
    ELSE LET op == Head(opsToApply)
         IN  ApplyOpsOverwrite((op.TableID :> op) @@ tableOps, Tail(opsToApply))

\* the loop of Tick over opsToApply: the map after it, and whether it
\* stopped at a duplicate
RECURSIVE ApplyOps(_, _)
ApplyOps(tableOps, opsToApply) ==
    IF opsToApply = <<>> THEN [tableOperations |-> tableOps, duplicate |-> FALSE]
    ELSE LET op == Head(opsToApply)
         IN  IF op.TableID \in DOMAIN tableOps
             THEN [tableOperations |-> tableOps, duplicate |-> TRUE]
             ELSE ApplyOps((op.TableID :> op) @@ tableOps, Tail(opsToApply))

\* popPendingOps (under pendingOpsMu) and the loop over what it returned
TickPopPendingOps ==
    /\ tick = "pop"
    /\ pendingOps' = <<>>
    /\ LET r == ApplyOps(tableOperations, pendingOps)
       IN  /\ tableOperations' = r.tableOperations
           /\ IF r.duplicate
              THEN \* logger.DPanic, then the error is returned
                   \E build \in Builds :
                      IF build = "development"
                      THEN tick' = "panicked" /\ tickRet' = "panic"
                      ELSE TickReturns("ErrProcessorDuplicateOperations")
              ELSE tick' = "process" /\ UNCHANGED tickRet
    /\ lastCalls' = {}
    /\ UNCHANGED <<ownerInfo, ownerHasChanged, needSyncNow, cb, syncOwed, msgs>>
    /\ UNCHANGED <<notifiedOwner, notifyOwed, notifyDue>>
    /\ UNCHANGED outsideAgent

(***************************************************************************)
(* processOperations.  An answer says what the executor and the messenger  *)
(* return for one table when they are asked in this pass.                  *)
(***************************************************************************)
Answers == [acc : Results, fin : {"true", "false"}, ack : Results]

\* a case operationFinished that keeps the operation in the map
caseFinishedKeepsOperation(op, calls, r) ==
    [op |-> <<op>>,
     calls |-> calls \cup {Call("FinishTableOperation", op.TableID, r.ack)},
     err |-> r.ack = "err"]

\* case operationFinished
caseFinished(op, calls, r) ==
    LET c == calls \cup {Call("FinishTableOperation", op.TableID, r.ack)}
    IN  IF r.ack = "err" THEN [op |-> <<op>>, calls |-> c, err |-> TRUE]
        ELSE IF r.ack = "done" THEN [op |-> <<>>, calls |-> c, err |-> FALSE]
        ELSE [op |-> <<op>>, calls |-> c, err |-> FALSE]

\* case operationProcessed
caseProcessed(op, calls, r) ==
    LET fn == IF op.IsDelete THEN "IsRemoveTableFinished" ELSE "IsAddTableFinished"
        c == calls \cup {Call(fn, op.TableID, r.fin)}
    IN  IF r.fin = "false" THEN [op |-> <<op>>, calls |-> c, err |-> FALSE]
        ELSE caseFinished([op EXCEPT !.status = operationFinished], c, r)

\* a case operationReceived that goes on when the executor says retry
caseReceivedWithoutDone(op, r) ==
    LET fn == IF op.IsDelete THEN "RemoveTable" ELSE "AddTable"
        c == {Call(fn, op.TableID, r.acc)}
    IN  IF r.acc = "err" THEN [op |-> <<op>>, calls |-> c, err |-> TRUE]
        ELSE caseProcessed([op EXCEPT !.status = operationProcessed], c, r)

\* case operationReceived
caseReceived(op, r) ==
    LET fn == IF op.IsDelete THEN "RemoveTable" ELSE "AddTable"
        c == {Call(fn, op.TableID, r.acc)}
    IN  IF r.acc = "err" THEN [op |-> <<op>>, calls |-> c, err |-> TRUE]
        ELSE IF r.acc = "retry" THEN [op |-> <<op>>, calls |-> c, err |-> FALSE]
        ELSE caseProcessed([op EXCEPT !.status = operationProcessed], c, r)

\* one pass of the switch for one operation: <<op>> as it is left, or <<>>
\* when it is deleted from the map; the calls made; whether one failed
processOperation(op, r) ==
    CASE op.status = operationReceived -> caseReceived(op, r)
      [] op.status = operationProcessed -> caseProcessed(op, {}, r)
      [] OTHER -> caseFinished(op, {}, r)

\* processOperations over the tables visited, with the answers r
ProcessOperations(visited, r) ==
    /\ tick = "process"
    /\ LET out == [t \in visited |-> processOperation(tableOperations[t], r[t])]
           failed == {t \in visited : out[t].err}
       IN  /\ \/ failed = {} /\ visited = DOMAIN tableOperations
              \/ Cardinality(failed) = 1
           /\ tableOperations' =
                 [t \in {x \in DOMAIN tableOperations :
                            x \in visited => out[x].op # <<>>} |->
                     IF t \in visited THEN out[t].op[1] ELSE tableOperations[t]]
           /\ lastCalls' = UNION {out[t].calls : t \in visited}
           /\ TickReturns(IF failed = {} THEN "nil" ELSE "err")
    /\ UNCHANGED <<ownerInfo, ownerHasChanged, needSyncNow, pendingOps, cb, syncOwed, msgs>>
    /\ UNCHANGED <<notifiedOwner, notifyOwed, notifyDue>>
    /\ UNCHANGED outsideAgent

\* processOperations ranges over the map in any order and returns at the
\* first error: visited are the tables it reached
TickProcessOperations ==
    \E visited \in SUBSET DOMAIN tableOperations : \E r \in [visited -> Answers] :
        ProcessOperations(visited, r)

(***************************************************************************)
(* The retrying etcd client: Client.WatchWithChan (pkg/etcd/client.go).    *)
(* Time is counted in seconds since lastReceivedResponseTime; the ticker   *)
(* fires once per etcdRequestProgressDuration.                             *)
(***************************************************************************)
etcdWatchChTimeoutDuration == 10
etcdRequestProgressDuration == 1

\* clientv3.WatchResponse: an event response (no error, not a progress
\* notification), a progress notification, or a response with an error;
\* rev is Header.Revision
ResponseKinds == {"event", "progress", "err"}
WatchResponse(kind, rev) == [kind |-> kind, rev |-> rev]
NoResponse == WatchResponse("none", 0)

\* the revision a watch opened with WithRev(rev) starts at: rev itself, or
\* the next revision of the store when no revision is given
StartRevision(rev) == IF rev = 0 THEN etcdRevision + 1 ELSE rev

\* the changes of the watched key the open watch has still to deliver
PendingEvents == {r \in keyRevisions : r >= watchFrom}

\* what the underlying watch channel can deliver next: the oldest pending
\* change, a requested progress notification once nothing is pending, or
\* an error
NextResponses ==
    (IF PendingEvents # {}
     THEN {WatchResponse("event", CHOOSE r \in PendingEvents :
                                     \A q \in PendingEvents : r <= q)}
     ELSE IF progressRequested /\ etcdRevision > 0
          THEN {WatchResponse("progress", etcdRevision)}
          ELSE {})
    \cup {WatchResponse("err", etcdRevision)}

\* before Watch is called
InitWatch ==
    /\ watchPc = "new"
    /\ lastRevision = 0
    /\ response = NoResponse
    /\ outCh = <<>>
    /\ outChClosed = FALSE
    /\ ctxDone = FALSE
    /\ sinceLastResponse = 0
    /\ etcdRevision = 0
    /\ keyRevisions = {}
    /\ watchFrom = 1
    /\ progressRequested = FALSE

\* WatchWithChan up to its loop; rev is getRevisionFromWatchOpts(opts), 0
\* when opts has no revision
WatchOpen(rev) ==
    /\ watchPc = "new"
    /\ lastRevision' = rev
    /\ watchFrom' = StartRevision(rev)
    /\ sinceLastResponse' = 0
    /\ watchPc' = "select"
    /\ UNCHANGED <<response, outCh, outChClosed, ctxDone, etcdRevision, keyRevisions,
                   progressRequested>>
    /\ UNCHANGED outsideWatch

\* a write to the store, to the watched key or to another key
EtcdPut(watched) ==
    /\ etcdRevision < MaxStoreRev
    /\ etcdRevision' = etcdRevision + 1
    /\ keyRevisions' = IF watched THEN keyRevisions \cup {etcdRevision + 1} ELSE keyRevisions
    /\ UNCHANGED <<watchPc, lastRevision, response, outCh, outChClosed, ctxDone,
                   sinceLastResponse, watchFrom, progressRequested>>
    /\ UNCHANGED outsideWatch

\* the caller cancels ctx
CtxCancel ==
    /\ ~ctxDone
    /\ ctxDone' = TRUE
    /\ UNCHANGED <<watchPc, lastRevision, response, outCh, outChClosed,
                   sinceLastResponse, etcdRevision, keyRevisions, watchFrom,
                   progressRequested>>
    /\ UNCHANGED outsideWatch

\* lines 232-234: lastRevision after the response r
recordRevision(last, r) == IF r.kind = "event" THEN r.rev ELSE last

\* case response := <-watchCh
WatchReceive(r) ==
    /\ watchPc = "select"
    /\ r \in NextResponses
    /\ Len(outCh) < MaxResponses
    /\ sinceLastResponse' = 0
    /\ lastRevision' = recordRevision(lastRevision, r)
    /\ response' = r
    /\ watchPc' = "send"
    /\ watchFrom' = IF r.kind = "event" THEN r.rev + 1 ELSE watchFrom
    /\ progressRequested' = (progressRequested /\ r.kind # "progress")
    /\ UNCHANGED <<outCh, outChClosed, ctxDone, etcdRevision, keyRevisions>>
    /\ UNCHANGED outsideWatch

\* case outCh <- response, then ticker.Reset
WatchForward ==
    /\ watchPc = "send"
    /\ outCh' = Append(outCh, response)
    /\ response' = NoResponse
    /\ watchPc' = "select"
    /\ UNCHANGED <<lastRevision, outChClosed, ctxDone, sinceLastResponse, etcdRevision,
                   keyRevisions, watchFrom, progressRequested>>
    /\ UNCHANGED outsideWatch

\* the clock after one more period of the ticker
Elapsed ==
    IF sinceLastResponse + etcdRequestProgressDuration >= etcdWatchChTimeoutDuration
    THEN etcdWatchChTimeoutDuration
    ELSE sinceLastResponse + etcdRequestProgressDuration

\* an inner loop that gives the response up once the timeout has passed
WatchTickBlockedDrops ==
    /\ watchPc = "send"
    /\ sinceLastResponse' = Elapsed
    /\ IF Elapsed >= etcdWatchChTimeoutDuration
       THEN watchPc' = "select" /\ response' = NoResponse
       ELSE UNCHANGED <<watchPc, response>>
    /\ UNCHANGED <<lastRevision, outCh, outChClosed, ctxDone,
                   etcdRevision, keyRevisions, watchFrom, progressRequested>>
    /\ UNCHANGED outsideWatch

\* case <-ticker.C of the inner loop: a warning at most
WatchTickBlocked ==
    /\ watchPc = "send"
    /\ sinceLastResponse' = Elapsed
    /\ UNCHANGED <<watchPc, lastRevision, response, outCh, outChClosed, ctxDone,
                   etcdRevision, keyRevisions, watchFrom, progressRequested>>
    /\ UNCHANGED outsideWatch

\* case <-ticker.C of the outer select: RequestProgress (ok: it succeeded),
\* and after etcdWatchChTimeoutDuration without a response the watch is
\* cancelled and opened again WithRev(lastRevision)
WatchTick(ok) ==
    /\ watchPc = "select"
    /\ IF Elapsed >= etcdWatchChTimeoutDuration
       THEN /\ watchFrom' = StartRevision(lastRevision)
            /\ sinceLastResponse' = 0
            /\ progressRequested' = FALSE
       ELSE /\ sinceLastResponse' = Elapsed
            /\ progressRequested' = (progressRequested \/ ok)
            /\ UNCHANGED watchFrom
    /\ UNCHANGED <<watchPc, lastRevision, response, outCh, outChClosed, ctxDone,
                   etcdRevision, keyRevisions>>
    /\ UNCHANGED outsideWatch

\* a loop whose inner select has no case <-ctx.Done()
WatchReturnFromOuterSelect ==
    /\ watchPc = "select"
    /\ ctxDone
    /\ watchPc' = "exited"
    /\ response' = NoResponse
    /\ outChClosed' = TRUE
    /\ UNCHANGED <<lastRevision, outCh, ctxDone, sinceLastResponse, etcdRevision,
                   keyRevisions, watchFrom, progressRequested>>
    /\ UNCHANGED outsideWatch

\* case <-ctx.Done() of either select: return; the deferred close(outCh)
WatchReturn ==
    /\ watchPc \in {"select", "send"}
    /\ ctxDone
    /\ watchPc' = "exited"
    /\ response' = NoResponse
    /\ outChClosed' = TRUE
    /\ UNCHANGED <<lastRevision, outCh, ctxDone, sinceLastResponse, etcdRevision,
                   keyRevisions, watchFrom, progressRequested>>
    /\ UNCHANGED outsideWatch

NextWatch ==
    \/ \E rev \in 0..MaxStoreRev : WatchOpen(rev)
    \/ \E watched \in BOOLEAN : EtcdPut(watched)
    \/ CtxCancel
    \/ \E r \in NextResponses : WatchReceive(r)
    \/ WatchForward
    \/ WatchTickBlocked
    \/ \E ok \in BOOLEAN : WatchTick(ok)
    \/ WatchReturn

(***************************************************************************)
(* The storage actor of the sorter: DBActor (cdc/sorter/leveldb).          *)
(* Poll runs on the one goroutine of the actor; the holders of iterators   *)
(* release their permits from other goroutines.  An event is the pair      *)
(* <<number of its task, index in the task>>; the size of the write batch  *)
(* is counted in events.                                                   *)
(***************************************************************************)
UIDs == {1}
tableKey(uid, tableID) == [UID |-> uid, TableID |-> tableID]
IterKeys == {tableKey(uid, tableID) : uid \in UIDs, tableID \in TableIDs}

\* actormsg.Message: a tick, a sorter task, a stop, or a type Poll does not
\* know; a sorter task has events (all puts or all deletes) and possibly an
\* iterator request of a table
NoIterReq == [UID |-> 0, TableID |-> 0]
Message(tp, events, isDelete, iterReq) ==
    [Tp |-> tp, Events |-> events, IsDelete |-> isDelete, IterReq |-> iterReq]
Messages ==
    {Message(tp, 0, FALSE, NoIterReq) : tp \in {"TypeTick", "TypeStop", "TypeUnknown"}}
    \cup {Message("TypeSorterTask", n, d, r) :
             n \in 0..MaxEvents, d \in BOOLEAN, r \in IterKeys \cup {NoIterReq}}
TaskBatches == UNION {[1..n -> Messages] : n \in 1..MaxBatch}

InitDBActor ==
    /\ dbPc = "idle"
    /\ wb = {}
    /\ db = {}
    /\ deleteCount = 0
    /\ iterQ = <<>>
    /\ iterQTables = {}
    /\ iterSem = 0
    /\ iterators = {}
    /\ taskSeq = 0

\* the fields of the actor that the loop of Poll works on
ActorState ==
    [wb |-> wb, db |-> db, deleteCount |-> deleteCount, iterQ |-> iterQ,
     tables |-> iterQTables, requireIter |-> FALSE, status |-> "running"]

\* maybeWrite; commitOk: wb.Commit succeeds (its error makes the caller
\* panic); compactOk: the compact scheduler takes the task
maybeWrite(s, force, commitOk, compactOk) ==
    LET bytes == Cardinality(s.wb)
    IN  IF s.status # "running" THEN s
        ELSE IF bytes >= wbSize \/ (force /\ bytes # 0)
        THEN IF commitOk
             THEN [s EXCEPT !.db = s.db \cup s.wb, !.wb = {},
                            !.deleteCount = IF compactOk THEN 0 ELSE @]
             ELSE [s EXCEPT !.status = "panic: db error"]
        ELSE s

\* the loop over task.Events from the i-th event on
RECURSIVE writeEvents(_, _, _, _, _, _)
writeEvents(s, msg, seq, i, commitOk, compactOk) ==
    IF i > msg.Events \/ s.status # "running" THEN s
    ELSE writeEvents(
             maybeWrite([s EXCEPT !.wb = @ \cup {<<seq, i>>},
                                  !.deleteCount = IF msg.IsDelete THEN @ + 1 ELSE @],
                        FALSE, commitOk, compactOk),
             msg, seq, i + 1, commitOk, compactOk)

\* a push that queues the request whether or not its table has one queued
pushUnchecked(s, key, seq) ==
    [s EXCEPT !.tables = @ \cup {key},
              !.iterQ = Append(@, [key |-> key, task |-> seq]),
              !.requireIter = TRUE]

\* iterQueue.push, and requireIter = true after it
push(s, key, seq) ==
    IF key \in s.tables
    THEN [s EXCEPT !.status = "panic: A table should not issue two concurrent iterator requests"]
    ELSE [s EXCEPT !.tables = @ \cup {key},
                   !.iterQ = Append(@, [key |-> key, task |-> seq]),
                   !.requireIter = TRUE]

\* one turn of the loop over tasks
handleTask(s, msg, seq, commitOk, compactOk) ==
    IF s.status # "running" THEN s
    ELSE IF msg.Tp = "TypeTick" THEN s
    ELSE IF msg.Tp = "TypeStop" THEN [s EXCEPT !.status = "closed"]
    ELSE IF msg.Tp # "TypeSorterTask" THEN [s EXCEPT !.status = "panic: unexpected message"]
    ELSE LET written == writeEvents(s, msg, seq, 1, commitOk, compactOk)
         IN  IF written.status = "running" /\ msg.IterReq # NoIterReq
             THEN push(written, msg.IterReq, seq)
             ELSE written

RECURSIVE handleTasks(_, _, _, _, _, _)
handleTasks(s, tasks, i, seq, commitOk, compactOk) ==
    IF i > Len(tasks) THEN s
    ELSE handleTasks(handleTask(s, tasks[i], seq + i, commitOk, compactOk),
                     tasks, i + 1, seq, commitOk, compactOk)

\* a Poll that never forces the write
neverForce(requireIter) == FALSE

\* the force argument of the maybeWrite that ends Poll
forceWrite(requireIter) == requireIter

\* Poll up to the call of acquireIterators; ctxIsDone: ctx.Done() is closed
Poll(tasks, ctxIsDone, commitOk, compactOk) ==
    /\ dbPc = "idle"
    /\ taskSeq + Len(tasks) <= MaxTasks
    /\ LET looped == handleTasks(ActorState, tasks, 1, taskSeq, commitOk, compactOk)
           s == maybeWrite(looped, forceWrite(looped.requireIter), commitOk, compactOk)
       IN  IF ctxIsDone
           THEN /\ dbPc' = "closed"
                /\ UNCHANGED <<wb, db, deleteCount, iterQ, iterQTables, taskSeq>>
           ELSE /\ dbPc' = IF s.status = "running" THEN "acquire" ELSE s.status
                /\ wb' = s.wb
                /\ db' = s.db
                /\ deleteCount' = s.deleteCount
                /\ iterQ' = s.iterQ
                /\ iterQTables' = s.tables
                /\ taskSeq' = taskSeq + Len(tasks)
    /\ UNCHANGED <<iterSem, iterators>>
    /\ UNCHANGED outsideDBActor

\* iterQueue.pop of a queue that is not empty
pop(q, tables) == [req |-> Head(q), iterQ |-> Tail(q), tables |-> tables \ {Head(q).key}]

\* the permits after TryAcquire succeeded and pop found nothing, when the
\* permit is kept
keepPermit(sem) == sem + 1

\* the permits after TryAcquire succeeded and pop found nothing: Release(1)
releasePermit(sem) == sem

\* one turn of the loop of acquireIterators
AcquireIterator ==
    /\ dbPc = "acquire"
    /\ IF iterSem >= Concurrency
       THEN \* TryAcquire fails
            /\ dbPc' = "idle"
            /\ UNCHANGED <<iterSem, iterQ, iterQTables, iterators>>
       ELSE IF iterQ = <<>>
       THEN /\ iterSem' = releasePermit(iterSem)
            /\ dbPc' = "idle"
            /\ UNCHANGED <<iterQ, iterQTables, iterators>>
       ELSE LET popped == pop(iterQ, iterQTables)
            IN  /\ iterSem' = iterSem + 1
                /\ iterQ' = popped.iterQ
                /\ iterQTables' = popped.tables
                /\ iterators' = iterators \cup {popped.req}
                /\ UNCHANGED dbPc
    /\ UNCHANGED <<wb, db, deleteCount, taskSeq>>
    /\ UNCHANGED outsideDBActor

\* the holder of an iterator drops it: Sema.Release(1)
ReleaseIterator(it) ==
    /\ it \in iterators
    /\ iterators' = iterators \ {it}
    /\ iterSem' = iterSem - 1
    /\ UNCHANGED <<dbPc, wb, db, deleteCount, iterQ, iterQTables, taskSeq>>
    /\ UNCHANGED outsideDBActor

NextDBActor ==
    \/ \E tasks \in TaskBatches, ctxIsDone, commitOk, compactOk \in BOOLEAN :
          Poll(tasks, ctxIsDone, commitOk, compactOk)
    \/ AcquireIterator
    \/ \E it \in iterators : ReleaseIterator(it)

(***************************************************************************)
(* The retried point operations of the etcd client (retryRPC).  A call     *)
(* runs retry.Do with context.Background(): it invokes etcdRPC, returns    *)
(* when the attempt succeeds or fails with an error that is not retryable, *)
(* gives up after maxTries failed attempts, and otherwise sleeps the       *)
(* backoff and tries again.  The caller's ctx is seen by the RPC only.     *)
(***************************************************************************)
\* the rpcName each point operation passes to retryRPC
EtcdTxn == "Txn"
EtcdRevoke == "Revoke"
PointOperations == {"Put", "Get", "Txn", "Grant", "Revoke", "TimeToLive"}
RPCName(op) ==
    CASE op = "Put" -> "Put"
      [] op = "Get" -> "Get"
      [] op = "Txn" -> EtcdTxn
      [] op = "Grant" -> "Grant"
      [] op = "Revoke" -> EtcdRevoke
      [] op = "TimeToLive" -> EtcdRevoke

\* what an attempt returns: nil, the error of the caller's ctx, the etcd
\* error with code NotFound, an etcd error that passes (Unavailable), and one
\* that the predicate of transactions refuses (Conflict)
RPCErrors == {"nil", "Canceled", "DeadlineExceeded", "NotFound", "Unavailable", "Conflict"}

\* cerrors.IsRetryableError: false for the errors of a context
IsRetryableError(err) == err \notin {"nil", "Canceled", "DeadlineExceeded"}

\* errorutil.IsRetryableEtcdError
IsRetryableEtcdError(err) == err \notin {"Conflict", "NotFound"}

\* an isRetryableError that lets Revoke retry a lease that is gone
isRetryableErrorOfAnyCode(name, err) ==
    IF ~IsRetryableError(err) THEN FALSE
    ELSE IF name = EtcdTxn THEN IsRetryableEtcdError(err)
    ELSE TRUE

isRetryableError(name, err) ==
    IF ~IsRetryableError(err) THEN FALSE
    ELSE IF name = EtcdRevoke /\ err = "NotFound" THEN FALSE
    ELSE IF name = EtcdTxn THEN IsRetryableEtcdError(err)
    ELSE TRUE

InitRPC ==
    /\ rpcName = "none"
    /\ rpcPc = "idle"
    /\ rpcTry = 0
    /\ rpcInvocations = 0
    /\ rpcErr = "nil"
    /\ rpcRet = "none"
    /\ rpcCtxDone = FALSE

\* Put, Get, Txn, Grant, Revoke or TimeToLive is called with a live ctx
RPCCall(op) ==
    /\ rpcPc \in {"idle", "returned"}
    /\ rpcName' = RPCName(op)
    /\ rpcPc' = "try"
    /\ rpcTry' = 0
    /\ rpcInvocations' = 0
    /\ rpcErr' = "nil"
    /\ rpcRet' = "none"
    /\ rpcCtxDone' = FALSE
    /\ UNCHANGED outsideRPC

\* the caller cancels ctx while the call runs
RPCCtxCancel ==
    /\ rpcPc \in {"try", "inflight", "backoff"}
    /\ ~rpcCtxDone
    /\ rpcCtxDone' = TRUE
    /\ UNCHANGED <<rpcName, rpcPc, rpcTry, rpcInvocations, rpcErr, rpcRet>>
    /\ UNCHANGED outsideRPC

\* operation() of retry.Do invokes etcdRPC
RPCInvoke ==
    /\ rpcPc = "try"
    /\ rpcPc' = "inflight"
    /\ rpcInvocations' = rpcInvocations + 1
    /\ UNCHANGED <<rpcName, rpcTry, rpcErr, rpcRet, rpcCtxDone>>
    /\ UNCHANGED outsideRPC

\* etcdRPC returns err (the error of ctx once ctx is cancelled) and retry.Do
\* returns, gives up or starts the backoff
RPCComplete(err) ==
    /\ rpcPc = "inflight"
    /\ rpcCtxDone => err = "Canceled"
    /\ rpcErr' = err
    /\ IF err = "nil"
       THEN rpcPc' = "returned" /\ rpcRet' = "nil" /\ UNCHANGED rpcTry
       ELSE IF ~isRetryableError(rpcName, err)
       THEN rpcPc' = "returned" /\ rpcRet' = err /\ UNCHANGED rpcTry
       ELSE /\ rpcTry' = rpcTry + 1
            /\ IF rpcTry + 1 >= maxTries
               THEN rpcPc' = "returned" /\ rpcRet' = "ErrReachMaxTry"
               ELSE rpcPc' = "backoff" /\ UNCHANGED rpcRet
    /\ UNCHANGED <<rpcName, rpcInvocations, rpcCtxDone>>
    /\ UNCHANGED outsideRPC

\* the timer of the backoff fires; the ctx of retry.Do is never done
RPCBackoffDone ==
    /\ rpcPc = "backoff"
    /\ rpcPc' = "try"
    /\ UNCHANGED <<rpcName, rpcTry, rpcInvocations, rpcErr, rpcRet, rpcCtxDone>>
    /\ UNCHANGED outsideRPC

NextRPC ==
    \/ \E op \in PointOperations : RPCCall(op)
    \/ RPCCtxCancel
    \/ RPCInvoke
    \/ \E err \in RPCErrors : RPCComplete(err)
    \/ RPCBackoffDone

(***************************************************************************)
(* The async pipeline node (ActorNode).  TryRun is one step: avail is the  *)
(* number of messages the parent gives without blocking during the call,   *)
(* outcomes the results of the successive TryHandleDataMessage calls:      *)
(* "ok" (true, nil), "busy" (false, nil), "err" (an error).                *)
(***************************************************************************)
Outcomes == {"ok", "busy", "err"}

InitNode ==
    /\ messageStash = <<>>
    /\ parentNext = 1
    /\ accepted = <<>>
    /\ handled = <<>>
    /\ nodeRet = "none"
    /\ nodeRuns = 0

NodeState ==
    [messageStash |-> messageStash, parentNext |-> parentNext,
     accepted |-> accepted, handled |-> handled, ret |-> "none"]

\* a fetch that asks the parent although a message is stashed
fetchOverStash(n, avail) ==
    IF avail > 0
    THEN [n EXCEPT !.messageStash = <<n.parentNext>>, !.parentNext = n.parentNext + 1]
    ELSE n

\* if n.messageStash == nil { n.messageStash = n.parentNode.TryGetDataMessage() }
fetch(n, avail) ==
    IF n.messageStash = <<>> /\ avail > 0
    THEN [n EXCEPT !.messageStash = <<n.parentNext>>, !.parentNext = n.parentNext + 1]
    ELSE n

\* one run of the loop of TryRun
RECURSIVE tryRun(_, _, _)
tryRun(n, avail, outcomes) ==
    LET fetched == fetch(n, avail)
        left == avail - (fetched.parentNext - n.parentNext)
    IN  IF fetched.messageStash = <<>>
        THEN [fetched EXCEPT !.ret = "nil"]
        ELSE LET res == Head(outcomes)
                 offered == [fetched EXCEPT
                               !.handled = Append(@, <<fetched.messageStash[1], res>>)]
             IN  IF res = "err"
                 THEN [offered EXCEPT !.ret = "err"]
                 ELSE IF res = "ok"
                 THEN tryRun([offered EXCEPT !.messageStash = <<>>,
                                             !.accepted = Append(@, offered.messageStash[1])],
                             left, Tail(outcomes))
                 ELSE [offered EXCEPT !.ret = "nil"]

TryRun(avail, outcomes) ==
    /\ nodeRuns < MaxRuns
    /\ avail <= MaxParentMsgs - (parentNext - 1)
    /\ LET n == tryRun(NodeState, avail, outcomes)
       IN  /\ messageStash' = n.messageStash
           /\ parentNext' = n.parentNext
           /\ accepted' = n.accepted
           /\ handled' = n.handled
           /\ nodeRet' = n.ret
    /\ nodeRuns' = nodeRuns + 1
    /\ UNCHANGED outsideNode

NextNode ==
    \E avail \in 0..MaxParentMsgs, outcomes \in [1..(MaxParentMsgs + 1) -> Outcomes] :
        TryRun(avail, outcomes)

(***************************************************************************)
(* The specifications, one per component.                                  *)
(***************************************************************************)
(***************************************************************************)
(* The RWMutex of RemoteCheckPoint between FlushSafeModeExitPoint, a       *)
(* reader (Snapshot) and the writers (SaveTablePoint, SaveGlobalPoint), a  *)
(* step per lock call.  sync.RWMutex: Lock takes rw.w, announces itself    *)
(* and waits for the read locks held to be released; RLock blocks while a  *)
(* writer has announced itself, also in a goroutine that holds a read      *)
(* lock; Unlock admits the readers blocked so far, then releases rw.w.     *)
(***************************************************************************)
Writers == {"SaveTablePoint", "SaveGlobalPoint"}

InitLock ==
    /\ rwReaders = 0
    /\ rwWriter = "none"
    /\ fsPc = "idle"
    /\ fsRet = "none"
    /\ rdPc = "idle"
    /\ wrPc = [w \in Writers |-> "idle"]
    /\ lockCalls = 0

CanLockCall == lockCalls < MaxLockCalls

\* FlushSafeModeExitPoint: cp.RLock() at its start
FlushSafeModeExitPointRLock ==
    /\ fsPc = "idle" /\ CanLockCall
    /\ IF rwWriter = "none"
       THEN fsPc' = "outer" /\ rwReaders' = rwReaders + 1
       ELSE fsPc' = "blockedOuter" /\ UNCHANGED rwReaders
    /\ lockCalls' = lockCalls + 1
    /\ UNCHANGED <<rwWriter, fsRet, rdPc, wrPc>>
    /\ UNCHANGED outsideLock

\* locationG := cp.FlushedGlobalPoint(): its cp.RLock(), with the read lock
\* of FlushSafeModeExitPoint held
FlushedGlobalPointRLock ==
    /\ fsPc = "outer"
    /\ IF rwWriter = "none"
       THEN fsPc' = "inner" /\ rwReaders' = rwReaders + 1
       ELSE fsPc' = "blockedInner" /\ UNCHANGED rwReaders
    /\ UNCHANGED <<rwWriter, fsRet, rdPc, wrPc, lockCalls>>
    /\ UNCHANGED outsideLock

\* FlushedGlobalPoint returns: its deferred cp.RUnlock()
FlushedGlobalPointRUnlock ==
    /\ fsPc = "inner"
    /\ fsPc' = "sql"
    /\ rwReaders' = rwReaders - 1
    /\ UNCHANGED <<rwWriter, fsRet, rdPc, wrPc, lockCalls>>
    /\ UNCHANGED outsideLock

\* ExecuteSQL, the store of the flag on success, the deferred cp.RUnlock()
FlushSafeModeExitPointReturn(sqlOk) ==
    /\ fsPc = "sql"
    /\ fsPc' = "idle"
    /\ fsRet' = IF sqlOk THEN "nil" ELSE "err"
    /\ rwReaders' = rwReaders - 1
    /\ UNCHANGED <<rwWriter, rdPc, wrPc, lockCalls>>
    /\ UNCHANGED outsideLock

\* Snapshot: cp.RLock()
ReaderRLock ==
    /\ rdPc = "idle" /\ CanLockCall
    /\ IF rwWriter = "none"
       THEN rdPc' = "holding" /\ rwReaders' = rwReaders + 1
       ELSE rdPc' = "blocked" /\ UNCHANGED rwReaders
    /\ lockCalls' = lockCalls + 1
    /\ UNCHANGED <<rwWriter, fsPc, fsRet, wrPc>>
    /\ UNCHANGED outsideLock

\* Snapshot returns: the deferred cp.RUnlock()
ReaderRUnlock ==
    /\ rdPc = "holding"
    /\ rdPc' = "idle"
    /\ rwReaders' = rwReaders - 1
    /\ UNCHANGED <<rwWriter, fsPc, fsRet, wrPc, lockCalls>>
    /\ UNCHANGED outsideLock

\* the place of a writer that has taken rw.w
AfterAnnounce == IF rwReaders = 0 THEN "holding" ELSE "waitReaders"

\* cp.Lock() of a writer
WriterLock(w) ==
    /\ wrPc[w] = "idle" /\ CanLockCall
    /\ IF rwWriter = "none"
       THEN rwWriter' = w /\ wrPc' = [wrPc EXCEPT ![w] = AfterAnnounce]
       ELSE UNCHANGED rwWriter /\ wrPc' = [wrPc EXCEPT ![w] = "waitW"]
    /\ lockCalls' = lockCalls + 1
    /\ UNCHANGED <<rwReaders, fsPc, fsRet, rdPc>>
    /\ UNCHANGED outsideLock

\* a writer blocked on rw.w takes it
WriterTakesW(w) ==
    /\ wrPc[w] = "waitW" /\ rwWriter = "none"
    /\ rwWriter' = w
    /\ wrPc' = [wrPc EXCEPT ![w] = AfterAnnounce]
    /\ UNCHANGED <<rwReaders, fsPc, fsRet, rdPc, lockCalls>>
    /\ UNCHANGED outsideLock

\* the last read lock is released: the announced writer holds the lock
WriterAcquires(w) ==
    /\ wrPc[w] = "waitReaders" /\ rwReaders = 0
    /\ wrPc' = [wrPc EXCEPT ![w] = "holding"]
    /\ UNCHANGED <<rwReaders, rwWriter, fsPc, fsRet, rdPc, lockCalls>>
    /\ UNCHANGED outsideLock

\* cp.Unlock() of the writer: the blocked readers are admitted
WriterUnlock(w) ==
    /\ wrPc[w] = "holding"
    /\ wrPc' = [wrPc EXCEPT ![w] = "idle"]
    /\ rwWriter' = "none"
    /\ fsPc' = IF fsPc = "blockedOuter" THEN "outer"
               ELSE IF fsPc = "blockedInner" THEN "inner" ELSE fsPc
    /\ rdPc' = IF rdPc = "blocked" THEN "holding" ELSE rdPc
    /\ rwReaders' = rwReaders
                    + (IF fsPc \in {"blockedOuter", "blockedInner"} THEN 1 ELSE 0)
                    + (IF rdPc = "blocked" THEN 1 ELSE 0)
    /\ UNCHANGED <<fsRet, lockCalls>>
    /\ UNCHANGED outsideLock

NextLock ==
    \/ FlushSafeModeExitPointRLock
    \/ FlushedGlobalPointRLock
    \/ FlushedGlobalPointRUnlock
    \/ \E ok \in BOOLEAN : FlushSafeModeExitPointReturn(ok)
    \/ ReaderRLock
    \/ ReaderRUnlock
    \/ \E w \in Writers : WriterLock(w)
    \/ \E w \in Writers : WriterTakesW(w)
    \/ \E w \in Writers : WriterAcquires(w)
    \/ \E w \in Writers : WriterUnlock(w)

Init ==
    /\ InitCheckpoint /\ InitAgent /\ InitWatch /\ InitDBActor /\ InitRPC /\ InitNode
    /\ InitLock

NextAgent ==
    \/ \E h \in Handlers, c \in CaptureIDs, rev \in 1..MaxRev, t \in TableIDs,
          d \in BOOLEAN : OnOwnerDispatchedTask(h, c, rev, t, d)
    \/ \E h \in Handlers : StoreOwnerHasChanged(h)
    \/ \E h \in Handlers : PushPendingOp(h)
    \/ \E h \in Handlers, c \in CaptureIDs, rev \in 1..MaxRev : OnOwnerAnnounce(h, c, rev)
    \/ \E h \in Handlers : StoreNeedSync(h)
    \/ TickSwapOwnerHasChanged
    \/ TickOnOwnerChanged
    \/ TickSendSync
    \/ TickStoreNeedSync
    \/ TickSendCheckpoint
    \/ TickPopPendingOps
    \/ TickProcessOperations

SpecAgent == Init /\ [][NextAgent]_vars

NextCheckpoint ==
    \/ \E tbl \in TableKeys, l \in Locations, ti \in TIs : SaveTablePoint(tbl, l, ti)
    \/ \E l \in Locations : SaveGlobalPoint(l)
    \/ \E p \in {<<>>} \cup {<<l>> : l \in Locations} : SaveSafeModeExitPoint(p)
    \/ \E isSyncFlush \in BOOLEAN : Snapshot(isSyncFlush)
    \/ \E id \in 1..MaxSeq, ex \in SUBSET TableKeys : FlushPointsExceptBegin(id, ex)
    \/ FlushPointsExceptFail
    \/ FlushPointsExceptFinish
    \/ \E S \in (SUBSET TableKeys) \ {{}} : \E tis \in [S -> TIs], ok \in BOOLEAN :
          FlushPointsWithTableInfos(tis, ok)
    \/ \E tracked \in [DOMAIN points -> TIs] : Rollback(tracked)
    \/ \E ok \in BOOLEAN : Load(ok)
    \/ \E ok \in BOOLEAN : Clear(ok)
    \/ \E tbl \in TableKeys, ok \in BOOLEAN : DeleteTablePoint(tbl, ok)
    \/ \E s \in Schemas, ok \in BOOLEAN : DeleteSchemaPoint(s, ok)

SpecCheckpoint == Init /\ [][NextCheckpoint]_vars

SpecWatch == Init /\ [][NextWatch]_vars

\* The task of WatchWithChan is a goroutine of its own: it is scheduled, and a
\* select with several ready cases takes each of them sooner or later (the
\* choice is uniformly random), so the case <-ctx.Done(), ready in every
\* select once ctx is cancelled, is taken.  Nothing is assumed of the
\* consumer of outCh, of the watch channel or of the ticker.
SpecWatchLive ==
    /\ Init
    /\ [][NextWatch]_vars
    /\ WF_vars(\E rev \in 0..MaxStoreRev : WatchOpen(rev))
    /\ WF_vars(WatchReturn)

SpecDBActor == Init /\ [][NextDBActor]_vars

SpecRPC == Init /\ [][NextRPC]_vars

SpecNode == Init /\ [][NextNode]_vars

\* Every call runs in a goroutine of its own, and the Go scheduler runs a
\* goroutine that is not blocked: each lock step that is enabled is taken.
\* A goroutine blocked in Lock or RLock has no enabled step.
SpecLock ==
    /\ Init
    /\ [][NextLock]_vars
    /\ WF_vars(FlushedGlobalPointRLock)
    /\ WF_vars(FlushedGlobalPointRUnlock)
    /\ WF_vars(\E ok \in BOOLEAN : FlushSafeModeExitPointReturn(ok))
    /\ WF_vars(ReaderRUnlock)
    /\ \A w \in Writers :
          /\ WF_vars(WriterTakesW(w))
          /\ WF_vars(WriterAcquires(w))
          /\ WF_vars(WriterUnlock(w))

(***************************************************************************)
(* The round trip of a table point through the checkpoint table: one       *)
(* SaveTablePoint on a new engine, a Snapshot, its FlushPointsExcept, then *)
(* a new engine with the same id that calls Load.  The locations carry a   *)
(* suffix here.                                                            *)
(***************************************************************************)
SuffixedLocations == [pos : 0..MaxPos, suffix : 0..MaxSuffix]

RoundTripSave(tbl, location, ti) ==
    cpRet = <<"none", "nil">> /\ SaveTablePoint(tbl, location, ti)

RoundTripSnapshot(isSyncFlush) ==
    cpRet[1] = "SaveTablePoint" /\ Snapshot(isSyncFlush)

\* the flush of the snapshot just taken; it excepts no table that has a point
RoundTripFlush(exceptTables) ==
    /\ cpRet = <<"Snapshot", "id">>
    /\ exceptTables \cap DOMAIN points = {}
    /\ FlushPointsExceptBegin(snapshots[1].id, exceptTables)

\* NewRemoteCheckPoint with the same id and table, then Load
LoadIntoFreshEngine(queryOk) ==
    /\ CanCall
    /\ cpRet[1] = "FlushPointsExcept" /\ flushing.pc = "idle"
    /\ globalPointSaveTime' = FALSE
    /\ snapshots' = <<>>
    /\ snapshotSeq' = 0
    /\ flushing' = NoFlush
    /\ cpLock' = "free"
    /\ IF ~queryOk
       THEN /\ points' = EmptyMap
            /\ globalPoint' = newBinlogPoint(NewLocation, NewLocation, NilTI, NilTI)
            /\ safeModeExitPoint' = <<>>
            /\ needFlushSafeModeExitPoint' = FALSE
            /\ cpRet' = <<"Load", "err">>
       ELSE /\ points' = LoadedPoints(EmptyMap)
            /\ globalPoint' =
                  LoadedGlobalPoint(newBinlogPoint(NewLocation, NewLocation, NilTI, NilTI))
            /\ safeModeExitPoint' = LoadedExitPoint
            /\ needFlushSafeModeExitPoint' = (LoadedExitPoint # <<>>)
            /\ cpRet' = <<"Load", "nil">>
    /\ Count
    /\ UNCHANGED store
    /\ UNCHANGED outsideCheckpoint

NextRoundTrip ==
    \/ \E tbl \in TableKeys, l \in SuffixedLocations, ti \in TIs : RoundTripSave(tbl, l, ti)
    \/ \E isSyncFlush \in BOOLEAN : RoundTripSnapshot(isSyncFlush)
    \/ \E ex \in SUBSET TableKeys : RoundTripFlush(ex)
    \/ FlushPointsExceptFail
    \/ FlushPointsExceptFinish
    \/ \E ok \in BOOLEAN : LoadIntoFreshEngine(ok)

SpecRoundTrip == Init /\ [][NextRoundTrip]_vars

(***************************************************************************)
(* The global point alone: SaveGlobalPoint, Snapshot, Rollback and         *)
(* FlushPointsExcept on a new engine, over MaxGlobalCalls calls.           *)
(***************************************************************************)
InitGlobalFlush ==
    /\ InitEngine /\ cpCalls = MaxCalls - MaxGlobalCalls
    /\ InitAgent /\ InitWatch /\ InitDBActor /\ InitRPC /\ InitNode /\ InitLock

NextGlobalFlush ==
    \/ \E l \in Locations : SaveGlobalPoint(l)
    \/ \E isSyncFlush \in BOOLEAN : Snapshot(isSyncFlush)
    \/ \E tracked \in [DOMAIN points -> TIs] : Rollback(tracked)
    \/ \E id \in 1..MaxSeq, ex \in SUBSET TableKeys : FlushPointsExceptBegin(id, ex)
    \/ FlushPointsExceptFail
    \/ FlushPointsExceptFinish

SpecGlobalFlush == InitGlobalFlush /\ [][NextGlobalFlush]_vars

(***************************************************************************)
(* Properties of the checkpoint engine.                                    *)
(***************************************************************************)
SavedLocation(b) == b.savedPoint.location
\* the step is the call SaveTablePoint(tbl, l, ti), or SaveGlobalPoint(l)
IsSaveTablePoint(tbl, l, ti) == cpRet'[1] = "SaveTablePoint" /\ SaveTablePoint(tbl, l, ti)
IsSaveGlobalPoint(l) == cpRet'[1] = "SaveGlobalPoint" /\ SaveGlobalPoint(l)
FlushedLocation(b) == b.flushedPoint.location

FlushedNotAfterSaved ==
    /\ CompareLocation(FlushedLocation(globalPoint), SavedLocation(globalPoint)) <= 0
    /\ \A tbl \in DOMAIN points :
          CompareLocation(FlushedLocation(points[tbl]), SavedLocation(points[tbl])) <= 0

\* a step of SaveGlobalPoint or of SaveTablePoint moves no saved location back
SavedNonDecreasing ==
    /\ CompareLocation(SavedLocation(globalPoint), SavedLocation(globalPoint')) <= 0
    /\ \A k \in DOMAIN points :
          /\ k \in DOMAIN points'
          /\ CompareLocation(SavedLocation(points[k]), SavedLocation(points'[k])) <= 0

\* SaveGlobalPoint(l): an older location is rejected and the saved point
\* stays; an equal or newer one is stored (with a nil schema)
GlobalSaveStoresOrRejects ==
    \A l \in Locations :
        IsSaveGlobalPoint(l) =>
            /\ SavedNonDecreasing
            /\ IF CompareLocation(l, SavedLocation(globalPoint)) < 0
               THEN /\ globalPoint'.savedPoint = globalPoint.savedPoint
                    /\ cpRet'[2] = "ErrCheckpointSaveInvalidPos"
               ELSE globalPoint'.savedPoint = TablePoint(l, NilTI)

\* C3 (as amended): over SaveGlobalPoint(l) and SaveTablePoint(t, l) calls on
\* existing entries no saved location decreases; a location older than the
\* saved one of the entry is rejected and leaves saved location and schema
\* as they are; an equal or newer one is stored, except that SaveTablePoint
\* panics and stores nothing when l is older than the saved global location.
SaveStoresOrRejects ==
    [][/\ GlobalSaveStoresOrRejects
       /\ \A tbl \in TableKeys, l \in Locations, ti \in TIs :
             (IsSaveTablePoint(tbl, l, ti) /\ tbl \in DOMAIN points) =>
                 /\ SavedNonDecreasing
                 /\ IF CompareLocation(SavedLocation(globalPoint), l) > 0
                    THEN points' = points /\ cpRet'[2] = "panic"
                    ELSE IF CompareLocation(l, SavedLocation(points[tbl])) < 0
                    THEN /\ points'[tbl].savedPoint = points[tbl].savedPoint
                         /\ cpRet'[2] = "ErrCheckpointSaveInvalidPos"
                    ELSE points'[tbl].savedPoint = TablePoint(l, ti)]_vars

\* C3, witness: SaveTablePoint on an existing entry was rejected for an older
\* location.
TableSaveRejected ==
    /\ cpRet = <<"SaveTablePoint", "ErrCheckpointSaveInvalidPos">>
    /\ \E tbl \in DOMAIN points : SavedLocation(points[tbl]).pos > 0

\* C3 (as stated): over SaveGlobalPoint(l) and SaveTablePoint(t, l) calls on
\* existing entries no saved location decreases; a location older than the
\* saved one of the entry is rejected and leaves saved location and schema
\* as they are; an equal or newer one is stored.
SaveStoresEqualOrNewer ==
    [][/\ GlobalSaveStoresOrRejects
       /\ \A tbl \in TableKeys, l \in Locations, ti \in TIs :
             (IsSaveTablePoint(tbl, l, ti) /\ tbl \in DOMAIN points) =>
                 /\ SavedNonDecreasing
                 /\ IF CompareLocation(l, SavedLocation(points[tbl])) < 0
                    THEN points'[tbl].savedPoint = points[tbl].savedPoint
                    ELSE points'[tbl].savedPoint = TablePoint(l, ti)]_vars

(***************************************************************************)
(* Properties of the agent.                                                *)
(***************************************************************************)
\* the step is a handler's call of updateOwnerInfo(c, rev): the start of
\* OnOwnerDispatchedTask or of OnOwnerAnnounce in handler h
IsUpdateOwnerInfo(h, c, rev) ==
    /\ msgs' = msgs + 1
    /\ \/ \E t \in TableIDs, d \in BOOLEAN : OnOwnerDispatchedTask(h, c, rev, t, d)
       \/ OnOwnerAnnounce(h, c, rev)

\* the step made the call fn(arg) and it returned res
Called(calls, fn, arg, res) ==
    \E c \in calls : c.fn = fn /\ c.arg = arg /\ c.res = res

CalledFn(calls, fn) == \E c \in calls : c.fn = fn

\* C4: updateOwnerInfo with a revision greater than the stored one replaces
\* capture ID and revision by the incoming ones, sets the owner-changed flag,
\* accepts the message, and leaves pending_ops empty when it returns.
NewerOwnerReplaces ==
    [][/\ \A h \in Handlers, c \in CaptureIDs, rev \in 1..MaxRev :
             (IsUpdateOwnerInfo(h, c, rev) /\ rev > ownerInfo.OwnerRev) =>
                 /\ ownerInfo' = [OwnerCaptureID |-> c, OwnerRev |-> rev]
                 /\ cb'[h].pc = "changed"
       /\ \A h \in Handlers :
             (cb[h].pc = "changed" /\ cb'[h].pc # "changed") =>
                 /\ ownerInfo' = ownerInfo
                 /\ ownerHasChanged'
                 /\ pendingOps' = <<>>
                 /\ cb'[h].pc \in {"push", "announce"}]_vars

\* C4, witness: the second message came from a newer owner and was accepted.
NewerOwnerReplaced ==
    /\ msgs > 1
    /\ ownerInfo.OwnerRev > 1
    /\ ownerHasChanged
    /\ pendingOps = <<>>
    /\ \E h \in Handlers : cb[h].pc \in {"push", "announce"}

\* C5: a message whose revision is less than the stored one is rejected: it
\* changes neither the owner, pending_ops, table_operations, the needs-sync
\* flag nor the owner-changed flag, and its handler returns without a push.
StaleMessageRejected ==
    [][\A h \in Handlers, c \in CaptureIDs, rev \in 1..MaxRev :
          (IsUpdateOwnerInfo(h, c, rev) /\ rev < ownerInfo.OwnerRev) =>
              /\ UNCHANGED <<ownerInfo, pendingOps, tableOperations, needSyncNow,
                             ownerHasChanged>>
              /\ cb'[h] = [pc |-> "idle", ret |-> "false"]]_vars

\* C5, witness: a handler returned false.
StaleMessageSeen ==
    \E h \in Handlers : cb[h].pc = "idle" /\ cb[h].ret = "false"

\* C6 (as stated): every operation in pending_ops was dispatched under the
\* stored owner revision.
PendingOpsOfStoredOwner ==
    \A i \in 1..Len(pendingOps) : pendingOps[i].rev = ownerInfo.OwnerRev

\* the queue holds an operation for a table of the map, or two for one table
HasDuplicate(tableOps, ops) ==
    \/ \E i \in 1..Len(ops) : ops[i].TableID \in DOMAIN tableOps
    \/ \E i, j \in 1..Len(ops) : i < j /\ ops[i].TableID = ops[j].TableID

\* the step in which Tick applies a queue with a duplicate: the entries of the
\* map stay, no executor or messenger call is made, processOperations is not
\* reached
DuplicateKeepsEntries ==
    /\ \A t \in DOMAIN tableOperations :
          t \in DOMAIN tableOperations' /\ tableOperations'[t] = tableOperations[t]
    /\ lastCalls' = {}
    /\ tick' \in {"idle", "panicked"}

\* C7 (as amended): when the operations Tick pops hold a table ID that is in
\* table_operations, or one twice, Tick fails -- it returns the
\* duplicate-operations error or, in a development build, panics at the
\* DPanic log -- without overwriting an entry and without running
\* processOperations.
DuplicateFailsTick ==
    [][(tick = "pop" /\ tick' # "pop" /\ HasDuplicate(tableOperations, pendingOps)) =>
          /\ DuplicateKeepsEntries
          /\ tickRet' \in {"ErrProcessorDuplicateOperations", "panic"}]_vars

\* C7, witness: Tick returned the duplicate-operations error with an entry in
\* the map.
DuplicateSeen ==
    tickRet = "ErrProcessorDuplicateOperations" /\ tableOperations # EmptyMap

\* C7 (as stated): on a duplicate Tick returns the duplicate-operations
\* error, without overwriting an entry and without running processOperations.
DuplicateReturnsError ==
    [][(tick = "pop" /\ tick' # "pop" /\ HasDuplicate(tableOperations, pendingOps)) =>
          /\ DuplicateKeepsEntries
          /\ tickRet' = "ErrProcessorDuplicateOperations"]_vars

\* the place of table t on the way Received, Processed, Finished, removed
operationRemoved == operationFinished + 1
StatusOf(tableOps, t) ==
    IF t \in DOMAIN tableOps THEN tableOps[t].status ELSE operationRemoved

\* C8: the status of an operation only moves forward, Received to Processed
\* after AddTable/RemoveTable returned done, Processed to Finished after
\* IsAddTableFinished/IsRemoveTableFinished returned true, Finished to
\* removed after FinishTableOperation returned done, possibly all in one Tick.
StatusMovesForward ==
    [][/\ \A t \in DOMAIN tableOperations :
             LET op == tableOperations[t]
                 old == op.status
                 new == StatusOf(tableOperations', t)
             IN  /\ old <= new
                 /\ new # operationRemoved =>
                       tableOperations'[t] = [op EXCEPT !.status = new]
                 /\ (old < operationProcessed /\ operationProcessed <= new) =>
                       Called(lastCalls', IF op.IsDelete THEN "RemoveTable" ELSE "AddTable",
                              t, "done")
                 /\ (old < operationFinished /\ operationFinished <= new) =>
                       Called(lastCalls', IF op.IsDelete THEN "IsRemoveTableFinished"
                                          ELSE "IsAddTableFinished", t, "true")
                 /\ new = operationRemoved =>
                       Called(lastCalls', "FinishTableOperation", t, "done")
       /\ \A t \in (DOMAIN tableOperations') \ DOMAIN tableOperations :
             tableOperations'[t].status = operationReceived]_vars

\* C8, witness: one Tick took an operation from Received to removed.
AllStepsInOneTick ==
    \E t \in TableIDs :
        /\ t \notin DOMAIN tableOperations
        /\ Called(lastCalls, "AddTable", t, "done")
        /\ Called(lastCalls, "IsAddTableFinished", t, "true")
        /\ Called(lastCalls, "FinishTableOperation", t, "done")

\* C9 (as stated): the first Tick that starts after an accepted
\* OnOwnerAnnounce returned calls SyncTaskStatuses.
FirstTickAfterAnnounceSyncs ==
    [][(tick = "load" /\ tick' # "load" /\ syncOwed = "due") =>
          CalledFn(lastCalls', "SyncTaskStatuses")]_vars

\* C10: while the needs-sync flag is set and SyncTaskStatuses does not return
\* done, Tick stops after the sync attempt -- no checkpoint, no drain of
\* pending_ops, no executor call -- and leaves the flag set; the flag is
\* cleared only by a Tick whose sync returned done.
SyncGatesTick ==
    [][/\ (tick = "load" /\ tick' # "load" /\ needSyncNow
              /\ \A c \in lastCalls' : c.fn = "SyncTaskStatuses" => c.res # "done") =>
             /\ tick' = "idle"
             /\ needSyncNow'
             /\ CalledFn(lastCalls', "SyncTaskStatuses")
             /\ \A c \in lastCalls' : c.fn = "SyncTaskStatuses"
             /\ UNCHANGED <<pendingOps, tableOperations>>
       /\ (tick # "store" /\ tick' = "store") =>
             \E c \in lastCalls' : c.fn = "SyncTaskStatuses" /\ c.res = "done"
       /\ (needSyncNow /\ ~needSyncNow') => tick = "store"]_vars

\* C10, witness: a Tick returned after a sync that was not done, and the
\* flag is set while an operation waits in pending_ops.
SyncNotDoneSeen ==
    /\ tick = "idle" /\ tickRet = "nil" /\ needSyncNow
    /\ \E c \in lastCalls : c.fn = "SyncTaskStatuses" /\ c.res = "retry"
    /\ pendingOps # <<>>

\* the elements of a list, and a list in strictly ascending order
Elements(seq) == {seq[i] : i \in 1..Len(seq)}
Ascending(seq) == \A i, j \in 1..Len(seq) : i < j => seq[i] < seq[j]

\* the step is the sendSync of a Tick and sync its SyncTaskStatuses call
IsSendSync(sync) ==
    tick = "load" /\ sync.fn = "SyncTaskStatuses"

\* what holds of every payload: removing, running, disjoint and sorted lists
PayloadRest(p, current) ==
    /\ Elements(p.removing) = {t \in DOMAIN tableOperations : tableOperations[t].IsDelete}
    /\ Elements(p.running) = current \ DOMAIN tableOperations
    /\ Elements(p.adding) \cap Elements(p.removing) = {}
    /\ Elements(p.adding) \cap Elements(p.running) = {}
    /\ Elements(p.removing) \cap Elements(p.running) = {}
    /\ Ascending(p.adding) /\ Ascending(p.removing) /\ Ascending(p.running)

\* C11 (as amended): the payload of SyncTaskStatuses has adding = the table
\* IDs of the add operations in table_operations whatever their status
\* (Received, Processed or Finished), removing = those of the remove
\* operations, running = the executor's current tables without the tables
\* that have an operation; the lists are pairwise disjoint and ascending.
SyncPayloadOfOperations ==
    [][\A sync \in lastCalls' :
          IsSendSync(sync) =>
              /\ Elements(sync.arg.adding) =
                    {t \in DOMAIN tableOperations : ~tableOperations[t].IsDelete}
              /\ PayloadRest(sync.arg, sync.current)]_vars

\* C11, witness: a sync was sent while an add operation was Finished and not
\* yet acknowledged, and the executor ran that table and another one.
SyncWithFinishedAdd ==
    \E sync \in lastCalls :
        /\ sync.fn = "SyncTaskStatuses"
        /\ \E t \in DOMAIN tableOperations :
              /\ ~tableOperations[t].IsDelete
              /\ tableOperations[t].status = operationFinished
              /\ t \in sync.current
        /\ sync.arg.running # <<>>

\* C11 (as stated): adding = exactly the table IDs of the add operations
\* whose status is Received or Processed; removing, running, disjointness
\* and order as above.
SyncPayloadAddingUnfinished ==
    [][\A sync \in lastCalls' :
          IsSendSync(sync) =>
              /\ Elements(sync.arg.adding) =
                    {t \in DOMAIN tableOperations :
                        /\ ~tableOperations[t].IsDelete
                        /\ tableOperations[t].status \in {operationReceived, operationProcessed}}
              /\ PayloadRest(sync.arg, sync.current)]_vars

\* C12: a message whose revision equals the stored one is accepted without
\* a change of the stored owner, the owner-changed flag or pending_ops when
\* its capture ID is the stored one; when the capture ID differs the handler
\* panics: nothing is accepted or enqueued and needs-sync is not set.
EqualRevisionRule ==
    [][\A h \in Handlers, c \in CaptureIDs, rev \in 1..MaxRev :
          (IsUpdateOwnerInfo(h, c, rev) /\ rev = ownerInfo.OwnerRev) =>
              /\ UNCHANGED <<ownerInfo, ownerHasChanged, pendingOps>>
              /\ IF c = ownerInfo.OwnerCaptureID
                 THEN cb'[h].pc \in {"push", "announce"}
                 ELSE /\ cb'[h] = [pc |-> "idle", ret |-> "panic"]
                      /\ UNCHANGED <<needSyncNow, tableOperations>>]_vars

\* C12, witness: a handler panicked on a second capture ID for the stored
\* revision.
OwnerIDsDoNotMatch ==
    /\ ownerInfo.OwnerRev > 0
    /\ \E h \in Handlers : cb[h].pc = "idle" /\ cb[h].ret = "panic"

(***************************************************************************)
(* Properties of Snapshot and FlushPointsExcept.                           *)
(***************************************************************************)
\* the step is the first half of the call FlushPointsExcept(id, except)
IsFlushPointsExcept(id, except) ==
    cpRet'[1] = "FlushPointsExcept" /\ FlushPointsExceptBegin(id, except)

\* the step is the successful return of a FlushPointsExcept call
IsFlushSuccess ==
    flushing.pc = "exec" /\ flushing'.pc = "idle" /\ cpRet' = <<"FlushPointsExcept", "nil">>

\* the tables for which the call built a row, and the snapshot value of one
FlushedTables == {r.key : r \in {x \in flushing.rows : ~x.is_global}}
SnapshotValue(k) == flushing.snapshotCp.points[k]

\* C13 (as stated): when FlushPointsExcept(id) returns success, the head of
\* the queue had that id when it was called, the call removed the head and
\* nothing else, and every entry it flushed has flushed <= saved afterwards.
FlushSuccessOfHead ==
    [][/\ \A id \in 1..MaxSeq, except \in SUBSET TableKeys :
             (IsFlushPointsExcept(id, except) /\ flushing'.pc = "exec") =>
                 /\ snapshots # <<>> /\ snapshots[1].id = id
                 /\ snapshots' = Tail(snapshots)
       /\ IsFlushSuccess =>
             /\ flushing.snapshotCp.id = flushing.snapshotID
             /\ snapshots' = snapshots
             /\ \A k \in FlushedTables \cap DOMAIN points' :
                   CompareLocation(FlushedLocation(points'[k]), SavedLocation(points'[k])) <= 0
             /\ flushing.snapshotCp.globalPoint # <<>> =>
                   CompareLocation(FlushedLocation(globalPoint'), SavedLocation(globalPoint')) <= 0]_vars

\* C14 (as stated): FlushPointsExcept with an id that is not the id of the
\* head snapshot, or with an empty queue, is fatal: it dequeues nothing,
\* prepares no flush and changes neither the store nor a flushed point.
FlushOutOfOrderIsFatal ==
    [][\A id \in 1..MaxSeq, except \in SUBSET TableKeys :
          (IsFlushPointsExcept(id, except)
              /\ (snapshots = <<>> \/ snapshots[1].id # id)) =>
                 /\ cpRet'[2] = "panic"
                 /\ flushing'.pc = "idle"
                 /\ UNCHANGED <<snapshots, store, points, globalPoint>>]_vars

\* the ids of the queue increase from head to tail and none is beyond the
\* sequence number
QueueIdsIncrease ==
    /\ \A i, j \in 1..Len(snapshots) : i < j => snapshots[i].id < snapshots[j].id
    /\ \A i \in 1..Len(snapshots) : snapshots[i].id <= snapshotSeq

\* C15: snapshot ids strictly increase: the sequence number never goes back
\* (not across Clear, not when Snapshot returns nil), a Snapshot that
\* returns a snapshot gives it an id above the sequence number it found,
\* hence above every id returned before, and the ids of the queue increase
\* from head to tail.
SnapshotIdsIncrease ==
    [][/\ snapshotSeq' >= snapshotSeq
       /\ QueueIdsIncrease'
       /\ cpRet' = <<"Snapshot", "id">> /\ cpCalls' # cpCalls =>
             /\ snapshots' = Append(snapshots, snapshots'[Len(snapshots')])
             /\ snapshots'[Len(snapshots')].id = snapshotSeq'
             /\ snapshotSeq' > snapshotSeq
       /\ cpRet' = <<"Snapshot", "nil">> /\ cpCalls' # cpCalls =>
             snapshotSeq' > snapshotSeq /\ snapshots' = snapshots]_vars

\* C15, witness: a snapshot was queued after a Clear emptied the queue and
\* after a Snapshot call had returned nil or an earlier id.
SnapshotAfterEarlierIds ==
    /\ cpRet = <<"Snapshot", "id">>
    /\ snapshots # <<>>
    /\ snapshots[Len(snapshots)].id > Len(snapshots)

\* C16 (the stored entries only, newer saves only): a FlushPointsExcept call
\* that gets to its SQL batch has captured exactly the tables of the head
\* snapshot that are not excepted and are out of date by their snapshot
\* value, each with that value; when it returns success, every captured
\* table whose entry is still the one captured gets the snapshot value as
\* its flushed point and keeps its saved point, an entry saved at a newer
\* location in the meantime is still out of date, and no other entry changes.
FlushSetsSnapshotValue ==
    [][/\ \A id \in 1..MaxSeq, except \in SUBSET TableKeys :
             (IsFlushPointsExcept(id, except) /\ flushing'.pc = "exec") =>
                 /\ DOMAIN flushing'.points =
                       {k \in (DOMAIN snapshots[1].points) \ except :
                           CompareLocation(snapshots[1].points[k].location,
                                           FlushedLocation(points[k])) > 0}
                 /\ \A k \in DOMAIN flushing'.points :
                       flushing'.points[k] = snapshots[1].points[k]
       /\ IsFlushSuccess =>
             /\ DOMAIN points' = DOMAIN points
             /\ \A k \in DOMAIN points :
                   IF k \in DOMAIN flushing.points
                   THEN /\ points'[k].flushedPoint = SnapshotValue(k)
                        /\ points'[k].savedPoint = points[k].savedPoint
                        /\ CompareLocation(SavedLocation(points[k]),
                                           SnapshotValue(k).location) > 0
                              => outOfDate(points'[k])
                   ELSE points'[k] = points[k]]_vars

\* a flush has just returned success and left a table flushed at an older
\* location than the one saved after the snapshot was taken
FlushedBehindLaterSave ==
    /\ cpRet = <<"FlushPointsExcept", "nil">>
    /\ \E k \in DOMAIN points :
          /\ FlushedLocation(points[k]).pos > 0
          /\ CompareLocation(FlushedLocation(points[k]), SavedLocation(points[k])) < 0
          /\ k \in DOMAIN store
          /\ store[k].binlog_pos = FlushedLocation(points[k]).pos

\* C16 (as stated): a successful FlushPointsExcept leaves every table it
\* wrote a row for with the snapshot value as its flushed point, and a table
\* whose saved point is no longer the snapshot value (and not behind it) is
\* still out of date.
FlushSetsSnapshotValueOfEveryTable ==
    [][IsFlushSuccess =>
          \A k \in FlushedTables :
             /\ k \in DOMAIN points'
             /\ points'[k].flushedPoint = SnapshotValue(k)
             /\ (/\ points'[k].savedPoint # SnapshotValue(k)
                 /\ CompareLocation(SavedLocation(points'[k]),
                                    SnapshotValue(k).location) >= 0)
                   => outOfDate(points'[k])]_vars

(***************************************************************************)
(* Properties of the watch loop.                                           *)
(***************************************************************************)
\* the step is the ticker case that cancels the watch and opens it again
IsReopen ==
    (\E ok \in BOOLEAN : WatchTick(ok)) /\ Elapsed >= etcdWatchChTimeoutDuration

\* the responses sent to outCh that carry no error
Forwarded(ch) == SelectSeq(ch, LAMBDA r : r.kind # "err")

\* C17 (as stated): the revision the watch is opened again at is not less
\* than the revision of any event or progress notification already sent to
\* outCh, and the revisions of the events and progress notifications sent to
\* outCh never decrease.
ReopenNotBehindForwarded ==
    [][/\ IsReopen =>
             \A i \in 1..Len(Forwarded(outCh)) : watchFrom' >= Forwarded(outCh)[i].rev
       /\ \A i, j \in 1..Len(Forwarded(outCh')) :
             i < j => Forwarded(outCh')[i].rev <= Forwarded(outCh')[j].rev]_vars

(***************************************************************************)
(* Properties of the storage actor.                                        *)
(***************************************************************************)
\* the events the actor has received: each is in the write batch or in the
\* database
ReceivedEvents == wb \cup db

\* C18: when the actor opens an iterator for a request, every event it
\* received in the task that carried the request or in an earlier task is
\* in the database and not in the write batch.
IteratorSeesOwnWrites ==
    [][\A it \in iterators' \ iterators :
          \A e \in ReceivedEvents :
             e[1] <= it.task => (e \in db /\ e \notin wb)]_vars

\* acquireIterators is about to open the iterator of a request that waited
\* since an earlier Poll: the events of its task are in the database and
\* the write batch holds events of a later task
WaitingRequestIsServed ==
    /\ dbPc = "acquire" /\ iterSem < Concurrency /\ iterQ # <<>>
    /\ \E e \in db : e[1] = Head(iterQ).task
    /\ \E e \in wb : e[1] > Head(iterQ).task

\* C19: the iterators handed out and not released are never more than
\* cfg.Concurrency, and each taken permit of the semaphore belongs to one of
\* them (a permit taken for an empty queue has been given back).
IteratorsWithinConcurrency ==
    /\ Cardinality(iterators) <= Concurrency
    /\ iterSem = Cardinality(iterators)

\* acquireIterators has returned with every permit taken and a request
\* left in the queue
SemaphoreFull ==
    /\ dbPc = "idle"
    /\ Cardinality(iterators) = Concurrency
    /\ iterQ # <<>>

\* the keys of the queued requests
QueuedKeys(q) == {q[i].key : i \in 1..Len(q)}

\* C20: the queue never holds two requests of one key, the key set beside
\* it is the set of the keys of the queued requests, and a push of a request
\* for a key that has a queued request panics and queues nothing.
OneRequestPerKey ==
    /\ Cardinality(QueuedKeys(iterQ)) = Len(iterQ)
    /\ iterQTables = QueuedKeys(iterQ)
    /\ \A key \in QueuedKeys(iterQ) :
          LET pushed == push(ActorState, key, taskSeq + 1)
          IN  /\ pushed.status =
                    "panic: A table should not issue two concurrent iterator requests"
              /\ pushed.iterQ = iterQ
              /\ pushed.tables = iterQTables

\* a Poll has panicked in push while a request was queued
PanickedWithQueuedRequest ==
    /\ dbPc = "panic: A table should not issue two concurrent iterator requests"
    /\ iterQ # <<>>

(***************************************************************************)
(* More properties of the checkpoint engine.                               *)
(***************************************************************************)
\* the step is a call of Rollback
IsRollback == cpRet'[1] = "Rollback"

\* C21: right after Rollback the saved location of the global entry and of
\* every table entry is its flushed location, and a Rollback that follows a
\* Rollback with nothing in between changes no saved and no flushed point.
RollbackIdempotent ==
    [][IsRollback =>
          /\ SavedLocation(globalPoint') = FlushedLocation(globalPoint')
          /\ \A k \in DOMAIN points' :
                SavedLocation(points'[k]) = FlushedLocation(points'[k])
          /\ cpRet[1] = "Rollback" =>
                (points' = points /\ globalPoint' = globalPoint)]_vars

\* Rollback has just taken a table back behind the location a queued
\* snapshot holds for it
RolledBackBehindSnapshot ==
    /\ cpRet[1] = "Rollback"
    /\ snapshots # <<>>
    /\ \E k \in DOMAIN points \cap DOMAIN snapshots[1].points :
          CompareLocation(snapshots[1].points[k].location, SavedLocation(points[k])) > 0

(***************************************************************************)
(* The round trip through the checkpoint table.                            *)
(***************************************************************************)
\* the step of a new engine that loads what a successful flush has written
IsLoadAfterFlush ==
    cpRet = <<"FlushPointsExcept", "nil">> /\ cpRet' = <<"Load", "nil">>

\* C22 (as stated): after SaveTablePoint(t, L, ti), a Snapshot and its
\* successful FlushPointsExcept that does not except t, a Load of a new engine
\* with the same id has an entry for t, saved and flushed both {L, ti}.
RoundTripKeepsPoint ==
    [][IsLoadAfterFlush =>
          \A t \in DOMAIN points :
              /\ t \in DOMAIN points'
              /\ points'[t].savedPoint = points[t].savedPoint
              /\ points'[t].flushedPoint = points[t].savedPoint]_vars

\* C22: the same round trip for a location L after the first location of a
\* new engine: the loaded entry for t has saved and flushed both
\* {L with its suffix reset, ti}; a point saved at the first location is in
\* no snapshot, is not written and has no entry after Load.
RoundTripKeepsPointWithoutSuffix ==
    [][IsLoadAfterFlush =>
          \A t \in DOMAIN points :
              IF CompareLocation(SavedLocation(points[t]), NewLocation) > 0
              THEN /\ t \in DOMAIN points'
                   /\ points'[t].savedPoint =
                        TablePoint(ResetSuffix(SavedLocation(points[t])),
                                   points[t].savedPoint.ti)
                   /\ points'[t].flushedPoint = points'[t].savedPoint
              ELSE t \notin DOMAIN points']_vars

\* C22, witness: a new engine has loaded the row of a table point that was
\* saved with a table info at a later location, flushed and written.
LoadedFlushedTablePoint ==
    /\ cpRet = <<"Load", "nil">>
    /\ \E t \in DOMAIN points \cap DOMAIN store :
          /\ SavedLocation(points[t]).pos > 0
          /\ points[t].savedPoint.ti # NilTI
          /\ points[t].flushedPoint = points[t].savedPoint

\* C23: IsOlderThanTablePoint is false for a table without an entry; with an
\* entry it is true exactly when location <= saved for a DDL or with GTID
\* disabled, and exactly when location < saved for a DML in GTID mode.
OlderThanTablePointRule ==
    \A tbl \in TableKeys, l \in Locations, isDDL \in BOOLEAN, enableGTID \in BOOLEAN :
        LET older == IsOlderThanTablePoint(points, tbl, l, isDDL, enableGTID)
        IN  /\ tbl \notin DOMAIN points => ~older
            /\ tbl \in DOMAIN points =>
                  /\ (isDDL \/ ~enableGTID) =>
                        (older <=> l.pos <= SavedLocation(points[tbl]).pos)
                  /\ (~isDDL /\ enableGTID) =>
                        (older <=> l.pos < SavedLocation(points[tbl]).pos)

\* C23, witness: one table has a point saved at a later location, where the
\* answer for an event at that location differs between a DDL and a DML of
\* GTID mode, and another table has no entry.
SavedLocationSkippedForDDLOnly ==
    /\ \E tbl \in DOMAIN points :
          /\ SavedLocation(points[tbl]).pos > 0
          /\ IsOlderThanTablePoint(points, tbl, SavedLocation(points[tbl]), TRUE, TRUE)
          /\ ~IsOlderThanTablePoint(points, tbl, SavedLocation(points[tbl]), FALSE, TRUE)
          /\ IsOlderThanTablePoint(points, tbl, SavedLocation(points[tbl]), FALSE, FALSE)
    /\ \E tbl \in TableKeys \ DOMAIN points :
          ~IsOlderThanTablePoint(points, tbl, NewLocation, TRUE, FALSE)

\* C24: SaveTablePoint(t, L0) called while the saved location of the global
\* point is after L0 panics before any change: no entry for t is created and
\* no entry is modified.
SaveTablePointBehindGlobalPanics ==
    [][\A tbl \in TableKeys, l \in Locations, ti \in TIs :
          (IsSaveTablePoint(tbl, l, ti)
             /\ CompareLocation(SavedLocation(globalPoint), l) > 0) =>
              /\ cpRet'[2] = "panic"
              /\ points' = points
              /\ globalPoint' = globalPoint]_vars

\* C24, witness: SaveTablePoint has panicked in an engine where one table has
\* an entry behind the global point and another table has none.
PanickedSaveTablePoint ==
    /\ cpRet = <<"SaveTablePoint", "panic">>
    /\ TableKeys \ DOMAIN points # {}
    /\ \E tbl \in DOMAIN points :
          CompareLocation(SavedLocation(globalPoint), SavedLocation(points[tbl])) > 0

IsFlushPointsWithTableInfos(tis, ok) ==
    cpRet'[1] = "FlushPointsWithTableInfos" /\ FlushPointsWithTableInfos(tis, ok)

ExitPoints == {<<>>} \cup {<<l>> : l \in Locations}

IsSaveSafeModeExitPoint(p) ==
    cpRet'[1] = "SaveSafeModeExitPoint" /\ SaveSafeModeExitPoint(p)

\* C26 (as stated): SaveSafeModeExitPoint(loc) changes the pointer only if
\* loc is a location after the current pointer (any location when there is
\* none), sets the flag when it changes the pointer and leaves the flag as
\* it was when it does not.
ExitPointMovesOnlyForward ==
    [][\A p \in ExitPoints :
          IsSaveSafeModeExitPoint(p) =>
              /\ safeModeExitPoint' # safeModeExitPoint =>
                    /\ p # <<>>
                    /\ \/ safeModeExitPoint = <<>>
                       \/ CompareLocation(p[1], safeModeExitPoint[1]) > 0
                    /\ needFlushSafeModeExitPoint'
              /\ safeModeExitPoint' = safeModeExitPoint =>
                    needFlushSafeModeExitPoint' = needFlushSafeModeExitPoint]_vars

\* C26: SaveSafeModeExitPoint(loc) stores loc and sets the flag when there is
\* no current pointer, when loc is nil, or when loc is after the current
\* pointer; a location equal to or before the current pointer leaves the
\* pointer and the flag as they were.
ExitPointMovesForwardOrResets ==
    [][\A p \in ExitPoints :
          IsSaveSafeModeExitPoint(p) =>
              IF \/ safeModeExitPoint = <<>>
                 \/ p = <<>>
                 \/ CompareLocation(p[1], safeModeExitPoint[1]) > 0
              THEN safeModeExitPoint' = p /\ needFlushSafeModeExitPoint'
              ELSE /\ safeModeExitPoint' = safeModeExitPoint
                   /\ needFlushSafeModeExitPoint' = needFlushSafeModeExitPoint]_vars

\* C26, witness: SaveSafeModeExitPoint has reset the pointer to nil after a
\* pointer at a later location was written with the global row.
ExitPointResetAfterFlush ==
    /\ cpRet = <<"SaveSafeModeExitPoint", "nil">>
    /\ safeModeExitPoint = <<>>
    /\ needFlushSafeModeExitPoint
    /\ GlobalKey \in DOMAIN store
    /\ store[GlobalKey].exit_safe_binlog_pos > 0

(***************************************************************************)
(* Properties of the retried point operations.                             *)
(***************************************************************************)
\* the step in which an attempt of Revoke (or TimeToLive, which passes the
\* same rpcName) returns the etcd error NotFound
IsRevokeOfGoneLease ==
    /\ rpcPc = "inflight" /\ rpcPc' # "inflight"
    /\ rpcName = EtcdRevoke
    /\ rpcErr' = "NotFound"

\* the step in which an attempt fails in another way
IsOtherFault ==
    /\ rpcPc = "inflight" /\ rpcPc' # "inflight"
    /\ rpcErr' # "nil"
    /\ ~(rpcName = EtcdRevoke /\ rpcErr' = "NotFound")

\* C27 (as stated): a Revoke that is answered NotFound is not retried and
\* returns no error to the caller; any other fault is retried or returned as
\* an error.
RevokeOfGoneLeaseSucceeds ==
    [][/\ IsRevokeOfGoneLease => (rpcPc' = "returned" /\ rpcRet' = "nil")
       /\ IsOtherFault => (rpcPc' = "backoff" \/ rpcRet' \notin {"nil", "none"})]_vars

\* C27: a Revoke that is answered NotFound is not retried and returns the
\* NotFound error to the caller; any other fault is retried or returned as an
\* error.
RevokeOfGoneLeaseNotRetried ==
    [][/\ IsRevokeOfGoneLease => (rpcPc' = "returned" /\ rpcRet' = "NotFound")
       /\ IsOtherFault => (rpcPc' = "backoff" \/ rpcRet' \notin {"nil", "none"})]_vars

\* C27, witness: a Revoke was retried once and then returned NotFound.
RevokeReturnedNotFound ==
    /\ rpcName = EtcdRevoke
    /\ rpcPc = "returned"
    /\ rpcRet = "NotFound"
    /\ rpcInvocations = 2

\* C28 (as stated): a point operation invokes the RPC at most maxTries times,
\* and invokes it again only after an attempt that failed with a retryable
\* error and while the caller's ctx is not cancelled.
RetryStopsWhenSettled ==
    [][/\ rpcInvocations' <= maxTries
       /\ (rpcInvocations' > rpcInvocations /\ rpcInvocations >= 1) =>
             /\ isRetryableError(rpcName, rpcErr)
             /\ ~rpcCtxDone]_vars

(***************************************************************************)
(* Properties of the async pipeline node.                                  *)
(***************************************************************************)
\* C29: the stash loses its message only when the processor accepted it; a
\* message left in the stash by a refusal or an error is the first message
\* the next TryRun offers; the messages the processor has accepted are the
\* messages of the parent in the parent's order, each once and none skipped,
\* and a stashed message is the next one.
StashedUntilAccepted ==
    /\ [][/\ (messageStash # <<>> /\ messageStash' # messageStash) =>
                \E i \in (Len(handled) + 1)..Len(handled') :
                    handled'[i] = <<messageStash[1], "ok">>
          /\ (messageStash # <<>> /\ nodeRuns' # nodeRuns) =>
                /\ Len(handled') > Len(handled)
                /\ handled'[Len(handled) + 1][1] = messageStash[1]]_vars
    /\ [](/\ \A i \in 1..Len(accepted) : accepted[i] = i
          /\ accepted = [i \in 1..Len(accepted) |->
                           SelectSeq(handled, LAMBDA h : h[2] = "ok")[i][1]]
          /\ parentNext = Len(accepted) + Len(messageStash) + 1
          /\ messageStash # <<>> => messageStash[1] = Len(accepted) + 1)

\* C29, witness: a message was refused, later failed with an error and was
\* then accepted, and the next message of the parent is in the stash.
AcceptedAfterRefusal ==
    /\ \E i, j, k \in 1..Len(handled) :
          /\ i < j /\ j < k
          /\ handled[i][2] = "busy" /\ handled[j][2] = "err" /\ handled[k][2] = "ok"
          /\ handled[i][1] = handled[k][1] /\ handled[j][1] = handled[k][1]
    /\ messageStash = <<Len(accepted) + 1>>

(***************************************************************************)
(* Liveness of the watch loop.                                             *)
(***************************************************************************)
\* C30: once ctx is cancelled the task of WatchWithChan closes outCh and
\* exits, whether it waits for a response, is in the inner loop with a
\* response nobody reads, or has just opened the watch again; nothing is
\* sent to outCh after it is closed.
CancelLeadsToExit ==
    /\ ctxDone ~> (watchPc = "exited" /\ outChClosed)
    /\ [][outChClosed => (outCh' = outCh /\ outChClosed')]_vars

\* C30, witness: the task has exited and closed outCh while the last event
\* it received from the watch channel was never sent to outCh.
ExitedWhileForwarding ==
    /\ watchPc = "exited" /\ outChClosed /\ ctxDone
    /\ lastRevision \in keyRevisions
    /\ watchFrom = lastRevision + 1
    /\ \A i \in 1..Len(outCh) :
          ~(outCh[i].kind = "event" /\ outCh[i].rev = lastRevision)

(***************************************************************************)
(* Properties of the owner-changed notification.                           *)
(***************************************************************************)
\* the stored owner is the one the messenger was last told of
MessengerKnowsOwner == notifiedOwner = ownerInfo.OwnerCaptureID

\* C31 (as stated): a Tick that starts after the stored owner was replaced
\* calls OnOwnerChanged before any SyncTaskStatuses call it makes and before
\* it returns; and whenever the owner-changed flag is clear and no Tick is in
\* progress, the capture ID of the last OnOwnerChanged is the stored one.
OwnerChangeNotifiedInNextTick ==
    [][/\ CalledFn(lastCalls', "SyncTaskStatuses") => notifyDue = "none"
       /\ (tick # "idle" /\ tick' = "idle") => notifyDue = "none"
       /\ (~ownerHasChanged' /\ tick' = "idle") => MessengerKnowsOwner']_vars

(***************************************************************************)
(* Properties of what Snapshot captures.                                   *)
(***************************************************************************)
\* the step is the call Snapshot(isSyncFlush)
IsSnapshot(isSyncFlush) == cpRet'[1] = "Snapshot" /\ Snapshot(isSyncFlush)

\* the table entries saved strictly after their flushed location
SavedAfterFlushed ==
    {t \in DOMAIN points :
        CompareLocation(SavedLocation(points[t]), FlushedLocation(points[t])) > 0}

\* the global point goes into a snapshot taken now
GlobalPointToFlush(isSyncFlush) ==
    \/ CompareLocation(SavedLocation(globalPoint), FlushedLocation(globalPoint)) > 0
    \/ ~globalPointSaveTime
    \/ (isSyncFlush /\ needFlushSafeModeExitPoint)

\* C32: Snapshot captures exactly the table entries whose saved location is
\* strictly greater than the flushed one, each with its saved point of that
\* moment; with no such entry and no global point to flush it returns nil and
\* appends nothing; otherwise it appends exactly one snapshot at the tail.
SnapshotCapturesOutOfDateTables ==
    [][\A isSyncFlush \in BOOLEAN :
          IsSnapshot(isSyncFlush) =>
              IF SavedAfterFlushed = {} /\ ~GlobalPointToFlush(isSyncFlush)
              THEN snapshots' = snapshots /\ cpRet'[2] = "nil"
              ELSE /\ Len(snapshots') = Len(snapshots) + 1
                   /\ SubSeq(snapshots', 1, Len(snapshots)) = snapshots
                   /\ DOMAIN snapshots'[Len(snapshots')].points = SavedAfterFlushed
                   /\ \A t \in SavedAfterFlushed :
                         snapshots'[Len(snapshots')].points[t] = points[t].savedPoint
                   /\ cpRet'[2] = "id"]_vars

\* C32, witness: the snapshot at the tail holds one table entry and leaves
\* out another that is flushed up to its saved location.
SnapshotLeftOutFlushedTable ==
    /\ cpRet = <<"Snapshot", "id">>
    /\ snapshots # <<>>
    /\ DOMAIN snapshots[Len(snapshots)].points # {}
    /\ \E t \in DOMAIN points :
          /\ t \notin DOMAIN snapshots[Len(snapshots)].points
          /\ SavedLocation(points[t]) = FlushedLocation(points[t])

(***************************************************************************)
(* Properties of the lock of FlushPointsExcept.                            *)
(***************************************************************************)
\* what FlushPointsExcept returns (a panic is no return)
FlushReturns == {"nil", "err", "ErrSchemaTrackerCannotSerialize"}

\* C33 (as stated): FlushPointsExcept releases the write lock on every
\* return path, the return for a schema snapshot that cannot be serialized
\* included: once it has returned, SaveTablePoint, SaveGlobalPoint and
\* Snapshot can take the lock.
FlushReturnsWithLockReleased ==
    (cpRet[1] = "FlushPointsExcept" /\ cpRet[2] \in FlushReturns) => cpLock = "free"

(***************************************************************************)
(* Properties of the entries a flush acts on.                              *)
(***************************************************************************)
\* C34 (as stated): when FlushPointsExcept processes the head snapshot, every
\* table of that snapshot that is not excepted has an entry in points under
\* the same schema and table name, whatever ran between Snapshot and the
\* flush: the flush never acts on a missing entry.
FlushFindsEveryTableEntry ==
    [][\A id \in 1..MaxSeq, except \in SUBSET TableKeys :
          (/\ IsFlushPointsExcept(id, except)
           /\ snapshots # <<>>
           /\ snapshots' = Tail(snapshots)) =>
              /\ (DOMAIN snapshots[1].points) \ except \subseteq DOMAIN points
              /\ cpRet'[2] # "panic"]_vars

(***************************************************************************)
(* Properties of the flushed global location.                              *)
(***************************************************************************)
\* the location of the global row of the store, the first one without a row
StoredGlobalLocation(st) ==
    IF GlobalKey \in DOMAIN st THEN InitLocation(st[GlobalKey].binlog_pos) ELSE NewLocation

\* C35 (as stated): over SaveGlobalPoint, Snapshot, Rollback and successful
\* FlushPointsExcept calls the flushed global location never moves backward,
\* in the row a successful flush writes and in global.flushed of the engine.
FlushedGlobalNeverMovesBack ==
    [][/\ CompareLocation(FlushedLocation(globalPoint'), FlushedLocation(globalPoint)) >= 0
       /\ CompareLocation(StoredGlobalLocation(store'), StoredGlobalLocation(store)) >= 0]_vars

(***************************************************************************)
(* Properties of the needs-flush flag of the safe-mode-exit pointer.       *)
(***************************************************************************)
\* the exit_safe_binlog_pos column that holds the pointer p, and the one the
\* global row of the store holds (0 without a row)
ExitPointColumn(p) == IF p = <<>> THEN 0 ELSE p[1].pos
StoredExitPointColumn ==
    IF GlobalKey \in DOMAIN store THEN store[GlobalKey].exit_safe_binlog_pos ELSE 0

\* C36 (as stated): the needs-flush flag is false only when the current
\* safe-mode-exit pointer is written to the store: a successful
\* FlushPointsExcept clears it only with a batch that holds the global row
\* with the current pointer, also when SaveSafeModeExitPoint runs while the
\* SQL batch executes.
FlagClearOnlyWhenExitPointStored ==
    ~needFlushSafeModeExitPoint =>
        StoredExitPointColumn = ExitPointColumn(safeModeExitPoint)

(***************************************************************************)
(* Properties of a FlushPointsExcept whose SQL batch fails.                *)
(***************************************************************************)
\* the step is the return of a FlushPointsExcept call whose SQL batch failed
IsFlushFailure ==
    flushing.pc = "exec" /\ flushing'.pc = "idle" /\ cpRet' = <<"FlushPointsExcept", "err">>

\* C37 (as amended): a FlushPointsExcept whose SQL batch fails returns the
\* error with the flushed points, the needs-flush flag, the store and the
\* rest of the queue as they were; the snapshot it took from the head is
\* not put back, so its id is no longer in the queue.
FailedFlushDropsSnapshot ==
    [][IsFlushFailure =>
          /\ UNCHANGED <<points, globalPoint, globalPointSaveTime,
                         needFlushSafeModeExitPoint, store, snapshots>>
          /\ \A i \in 1..Len(snapshots') : snapshots'[i].id # flushing.snapshotCp.id]_vars

\* C37, witness: a flush failed with the needs-flush flag raised and a table
\* saved ahead of its flushed location, and its snapshot is gone.
FlushFailedWithPointsOutOfDate ==
    /\ cpRet = <<"FlushPointsExcept", "err">>
    /\ needFlushSafeModeExitPoint
    /\ snapshots = <<>>
    /\ \E t \in DOMAIN points : outOfDate(points[t])

\* C37 (as stated): a FlushPointsExcept whose SQL batch fails returns the
\* error and leaves the engine as it was before the call: no flushed point
\* advances, the needs-flush flag is not cleared, and the snapshot it was
\* given is still at the head of the queue.
FailedFlushKeepsHeadSnapshot ==
    [][IsFlushFailure =>
          /\ UNCHANGED <<points, globalPoint, needFlushSafeModeExitPoint, store>>
          /\ snapshots' # <<>>
          /\ snapshots'[1] = flushing.snapshotCp]_vars

(***************************************************************************)
(* Properties of the lock of FlushSafeModeExitPoint.                       *)
(***************************************************************************)
\* C38 (as stated): FlushSafeModeExitPoint always terminates next to a
\* writer of the engine lock: it reads the flushed global point while it
\* holds the read lock, and no interleaving with a waiting writer leaves
\* the two blocked for ever.
FlushSafeModeExitPointTerminates == (fsPc # "idle") ~> (fsPc = "idle")

(***************************************************************************)
(* Properties of the forwarding of WatchWithChan.                          *)
(***************************************************************************)
\* C39: WatchWithChan forwards every response it receives from the watch
\* channel to outCh once and in the order received: while it holds a
\* response the consumer has not taken, it receives no other response, does
\* not re-open the watch and keeps the response; it gives the response up
\* only by returning after ctx is cancelled; and outCh grows only by the
\* response held.
ForwardsEachResponseOnce ==
    [][/\ (watchPc = "send") =>
             \/ /\ watchPc' = "send"
                /\ UNCHANGED <<response, outCh, watchFrom, lastRevision>>
             \/ /\ watchPc' = "select"
                /\ outCh' = Append(outCh, response)
                /\ UNCHANGED <<watchFrom, lastRevision>>
             \/ /\ watchPc' = "exited"
                /\ ctxDone
                /\ outCh' = outCh
       /\ (watchPc # "send") => outCh' = outCh
       /\ (watchPc # "send" /\ watchPc' = "send") => response' \in NextResponses]_vars

\* C39, witness: with a response forwarded before, the task has held the next
\* one for the whole timeout without the consumer taking it.
HeldResponseForTimeout ==
    /\ watchPc = "send"
    /\ response # NoResponse
    /\ sinceLastResponse = etcdWatchChTimeoutDuration
    /\ outCh # <<>>

(***************************************************************************)
(* The agent under the conditions of progress: no executor or messenger    *)
(* call returns an error, no table ID is dispatched while an operation on  *)
(* it is in flight, and no newer owner is accepted while an accepted       *)
(* operation waits for the Tick that drains pending_ops.                   *)
(***************************************************************************)
\* the handler h is about to push an operation on table t
Pushing(h, t) ==
    \/ cb[h].pc = "push" /\ cb[h].op.TableID = t
    \/ cb[h].pc = "changed" /\ cb[h].next.pc = "push" /\ cb[h].next.op.TableID = t

InPendingOps(t) == \E i \in 1..Len(pendingOps) : pendingOps[i].TableID = t

\* an operation on table t is in flight
InFlight(t) ==
    \/ t \in DOMAIN tableOperations
    \/ InPendingOps(t)
    \/ \E h \in Handlers : Pushing(h, t)

\* an accepted operation waits for the Tick that drains pending_ops
OpsWaiting ==
    \/ pendingOps # <<>>
    \/ \E h \in Handlers, t \in TableIDs : Pushing(h, t)

NewerOwnerAllowed(ownerRev) == ownerRev > ownerInfo.OwnerRev => ~OpsWaiting

NoErrorReturned == \A c \in lastCalls' : c.res # "err"

\* processOperations when no call returns an error: it visits every table
AnswersWithoutError == {a \in Answers : a.acc # "err" /\ a.ack # "err"}
ProcessOperationsWithoutError ==
    \E r \in [DOMAIN tableOperations -> AnswersWithoutError] :
        ProcessOperations(DOMAIN tableOperations, r)

NextAgentLive ==
    \/ \E h \in Handlers, c \in CaptureIDs, rev \in 1..MaxRev, t \in TableIDs, d \in BOOLEAN :
          /\ ~InFlight(t) /\ NewerOwnerAllowed(rev)
          /\ OnOwnerDispatchedTask(h, c, rev, t, d)
    \/ \E h \in Handlers : StoreOwnerHasChanged(h)
    \/ \E h \in Handlers : PushPendingOp(h)
    \/ \E h \in Handlers, c \in CaptureIDs, rev \in 1..MaxRev :
          NewerOwnerAllowed(rev) /\ OnOwnerAnnounce(h, c, rev)
    \/ \E h \in Handlers : StoreNeedSync(h)
    \/ TickSwapOwnerHasChanged
    \/ TickOnOwnerChanged
    \/ TickSendSync /\ NoErrorReturned
    \/ TickStoreNeedSync
    \/ TickSendCheckpoint /\ NoErrorReturned
    \/ TickPopPendingOps
    \/ ProcessOperationsWithoutError

\* the pass of processOperations moves the operation of table t on
Advances(t) ==
    /\ t \in DOMAIN tableOperations
    /\ StatusOf(tableOperations', t) > StatusOf(tableOperations, t)

ProcessOperationsAdvancing(t) ==
    \E r \in [DOMAIN tableOperations -> AnswersWithoutError] :
        ProcessOperations(DOMAIN tableOperations, r) /\ Advances(t)

\* a step of Tick, its start included; at most one of them is enabled at a
\* time
TickStep ==
    \/ TickSwapOwnerHasChanged
    \/ TickOnOwnerChanged
    \/ TickSendSync /\ NoErrorReturned
    \/ TickStoreNeedSync
    \/ TickSendCheckpoint /\ NoErrorReturned
    \/ TickPopPendingOps
    \/ ProcessOperationsWithoutError

\* Tick keeps being called and each of its steps runs (weak fairness of the
\* steps of Tick); a handler that holds ownerInfoMu goes on to release it;
\* SyncTaskStatuses, and for every table the AddTable or RemoveTable call,
\* the finished poll and FinishTableOperation, are called once per Tick and
\* each eventually returns done (strong fairness of the done outcomes).
SpecAgentLive ==
    /\ Init
    /\ [][NextAgentLive]_vars
    /\ WF_vars(TickStep)
    /\ WF_vars(\E h \in Handlers : StoreOwnerHasChanged(h))
    /\ SF_vars(TickSendSync /\ NoErrorReturned /\ tick' # "idle")
    /\ \A t \in TableIDs : SF_vars(ProcessOperationsAdvancing(t))

\* C40: under these conditions every operation that OnOwnerDispatchedTask
\* accepted and put into pending_ops is eventually gone from pending_ops
\* and from table_operations.
AcceptedOperationIsRemoved ==
    \A t \in TableIDs :
        InPendingOps(t) ~> (~InPendingOps(t) /\ t \notin DOMAIN tableOperations)

\* C40, witness: an operation was accepted and the Tick that got done from
\* FinishTableOperation left table_operations empty.
OperationFinishedAndRemoved ==
    /\ tick = "idle" /\ tickRet = "nil"
    /\ tableOperations = EmptyMap /\ pendingOps = <<>>
    /\ \E t \in TableIDs : Called(lastCalls, "FinishTableOperation", t, "done")

====
